---- MODULE Spec2Model ----
(***************************************************************************)
(* A model of the coordination kernel of aqua: the lease-based leader      *)
(* election of Database.try_become_leader and the task claim protocol of   *)
(* Database / Coordinator.  Every SQL statement is one atomic step (the    *)
(* connection runs in autocommit mode, db.py:133); the statements of one   *)
(* explicit transaction (db.py:162-172, BEGIN IMMEDIATE) are one step.     *)
(* Timestamps are integers: datetime.utcnow() reads the variable clock.    *)
(*                                                                         *)
(* Processes share nothing but the store.  In the task protocol a          *)
(* Coordinator call in flight is followed statement by statement (proc),   *)
(* while the statements of every other process reach the store as the      *)
(* Database calls DbClaimTask, DbFinishTask, DbAbandonTask, DbRequeue and  *)
(* CreateTask with any arguments, at any moment.  Of a task row the        *)
(* columns that some statement reads or conditions on are kept, and       *)
(* result and error with one value each; title, description, tags,         *)
(* context and updated_at are payload.                                     *)
(***************************************************************************)
EXTENDS Integers, Sequences, FiniteSets, TLC

\* ------------------------------------------------------------------ bounds
NumAgents == 2
NumProcs == 2
MaxClock == 3
MaxLease == 2
NumTasks == 2
MaxPriority == 2
MaxDeps == 1
MaxRetries == 2
MaxTerm == 0
NumWorkers == 1
NumRows == 3
MaxAge == 1
DeadThreshold == 1
ClaimTimeout == 1
MaxMessages == 2
NumPaths == 2
MaxFenceTerm == 2
NumNames == 2

Agents == 1..NumAgents
Procs == 1..NumProcs
Leases == 1..MaxLease
TaskIds == 1..NumTasks
Priorities == 1..MaxPriority
Terms == 0..MaxTerm
Workers == 1..NumWorkers

VARIABLES
    clock,      \* the wall clock read by datetime.utcnow()
    leader,     \* the rows of table leader
    elect,      \* per process: the try_become_leader call in flight
    lastElect,  \* history: the last try_become_leader call that returned
    won,        \* history: every (agent, term) returned with is_leader = True
    tasks,      \* the rows of table tasks, by id
    agents,     \* the rows of table agents, by id
    proc,       \* per process: the Coordinator call in flight
    winners,    \* history: per task, the callers whose claim_task returned True
                \* since the task last became pending
    ret,        \* history: the last Database / Coordinator call that returned
    events,     \* the rows of table events
    messages,   \* the rows of table messages, by id
    locks,      \* the rows of table file_locks
    pids,       \* the operating system's process table, by pid
    sweep       \* the Coordinator recovery call in flight

leaderVars == <<leader, elect, lastElect, won>>
taskVars == <<tasks, agents, proc, winners>>
restVars == <<ret, events, messages, locks, pids, sweep>>
vars == <<clock, leader, elect, lastElect, won, tasks, agents, proc, winners,
          ret, events, messages, locks, pids, sweep>>

\* No call has returned yet / no recovery call is in flight.
NoRet == [op |-> "none"]
NoSweep == [pc |-> "idle"]

\* The tables and histories the leader and claim protocols never touch.
RestInit ==
    /\ ret = NoRet
    /\ events = {}
    /\ messages = <<>>
    /\ locks = {}
    /\ pids = <<>>
    /\ sweep = NoSweep

\* ------------------------------------------------------- leader election

IdleElect == [pc |-> "idle", now |-> 0, onEmpty |-> FALSE]

\* agent_id = 0: no call has returned yet
NoElect == [agent_id |-> 0, now |-> 0, lease_seconds |-> 0,
            onEmpty |-> FALSE, before |-> {}, maxBefore |-> 0,
            ok |-> FALSE, term |-> 0]

\* The largest term returned so far with is_leader = True (0: none).
MaxWon == IF won = {} THEN 0
          ELSE CHOOSE t \in {w.term : w \in won} : \A w \in won : w.term <= t

\* SELECT * FROM leader WHERE id = 1
LeaderRowOtherId(tbl) == {r \in tbl : r.id = 0}
LeaderRow(tbl) == {r \in tbl : r.id = 1}

\* current.lease_expires_at > now
LeaseValidAtExpiry(row, now) == row.lease_expires_at >= now
LeaseValidReversed(row, now) == row.lease_expires_at < now
LeaseValid(row, now) == row.lease_expires_at > now

\* Leader.is_expired: datetime.utcnow() > self.lease_expires_at
LeaderIsExpired(row, now) == now > row.lease_expires_at

\* INSERT INTO leader (id, agent_id, term, lease_expires_at, elected_at)
\* VALUES (1, ?, 1, ?, ?); the PRIMARY KEY CHECK (id = 1) admits one row.
InsertLeader(tbl, agent_id, now, lease_seconds) ==
    tbl \cup {[id |-> 1, agent_id |-> agent_id, term |-> 1,
               lease_expires_at |-> now + lease_seconds, elected_at |-> now]}

\* UPDATE leader SET lease_expires_at = ? WHERE id = 1
RenewKeepsExpiry(tbl, now, lease_seconds) == tbl
RenewLease(tbl, now, lease_seconds) ==
    {IF r.id = 1 THEN [r EXCEPT !.lease_expires_at = now + lease_seconds] ELSE r
     : r \in tbl}

\* UPDATE leader SET agent_id = ?, term = ?, lease_expires_at = ?, elected_at = ?
\* WHERE id = 1 AND term = ?
TakeOverSameTerm(tbl, agent_id, now, lease_seconds, term) ==
    {IF r.id = 1 /\ r.term = term
        THEN [r EXCEPT !.agent_id = agent_id, !.term = term,
                       !.lease_expires_at = now + lease_seconds,
                       !.elected_at = now]
        ELSE r : r \in tbl}
TakeOver(tbl, agent_id, now, lease_seconds, term) ==
    {IF r.id = 1 /\ r.term = term
        THEN [r EXCEPT !.agent_id = agent_id, !.term = term + 1,
                       !.lease_expires_at = now + lease_seconds,
                       !.elected_at = now]
        ELSE r : r \in tbl}

TakeOverCount(tbl, term) == Cardinality({r \in tbl : r.id = 1 /\ r.term = term})

\* The body of the transaction of try_become_leader: the table after it and
\* the pair it returns.
TryBecomeLeader(tbl, agent_id, now, lease_seconds) ==
    IF LeaderRow(tbl) = {}
       THEN [leader |-> InsertLeader(tbl, agent_id, now, lease_seconds),
             ok |-> TRUE, term |-> 1]
       ELSE LET current == CHOOSE r \in LeaderRow(tbl) : TRUE IN
            IF LeaseValid(current, now)
               THEN IF current.agent_id = agent_id
                       THEN [leader |-> RenewLease(tbl, now, lease_seconds),
                             ok |-> TRUE, term |-> current.term]
                       ELSE [leader |-> tbl, ok |-> FALSE, term |-> 0]
               ELSE IF TakeOverCount(tbl, current.term) = 1
                       THEN [leader |-> TakeOver(tbl, agent_id, now,
                                                 lease_seconds, current.term),
                             ok |-> TRUE, term |-> current.term + 1]
                       ELSE [leader |-> tbl, ok |-> FALSE, term |-> 0]

\* try_become_leader up to BEGIN IMMEDIATE: the clock is read before the
\* transaction starts, and the process may then wait for the write lock.
\* onEmpty records whether the call was made on a store with no leader row.
BeginElect(p) ==
    /\ elect[p].pc = "idle"
    /\ elect' = [elect EXCEPT ![p] = [pc |-> "txn", now |-> clock,
                                      onEmpty |-> (leader = {})]]
    /\ UNCHANGED <<restVars, clock, leader, lastElect, won, taskVars>>

\* The transaction of try_become_leader(agent_id, lease_seconds), and its
\* return.  The arguments are not read before the transaction, so they are
\* drawn here.
TxnElect(p, agent_id, lease_seconds) ==
    /\ elect[p].pc = "txn"
    /\ LET c == elect[p]
           r == TryBecomeLeader(leader, agent_id, c.now, lease_seconds)
       IN /\ leader' = r.leader
          /\ lastElect' = [agent_id |-> agent_id, now |-> c.now,
                           lease_seconds |-> lease_seconds,
                           onEmpty |-> c.onEmpty, before |-> leader,
                           maxBefore |-> MaxWon,
                           ok |-> r.ok, term |-> r.term]
          /\ won' = IF r.ok THEN won \cup {[agent_id |-> agent_id, term |-> r.term]}
                            ELSE won
    /\ elect' = [elect EXCEPT ![p] = IdleElect]
    /\ UNCHANGED <<restVars, clock, taskVars>>

Tick ==
    /\ clock < MaxClock
    /\ clock' = clock + 1
    /\ UNCHANGED <<restVars, leaderVars, taskVars>>

\* ---------------------------------------------------------- task protocol
\* A tasks row keeps the columns the operations read or write; title,
\* description, tags, context, created_by and updated_at are payload.
\* NULL is 0 for claimed_by and current_task_id (ids start at 1) and -1 for
\* claim_term and the timestamps.  depends_on is the decoded JSON list.

NewTask(priority, depends_on, now) ==
    [status |-> "pending", priority |-> priority, claimed_by |-> 0,
     claim_term |-> -1, created_at |-> now, claimed_at |-> -1,
     completed_at |-> -1, result |-> "NULL", error |-> "NULL",
     retry_count |-> 0, max_retries |-> MaxRetries,
     depends_on |-> depends_on, version |-> 1]

\* Task.depends_on: the depends_on column of a fetched row, decoded.
DependsOn(row) == row.depends_on

\* create_agent: INSERT INTO agents.  Of an agents row the columns status,
\* current_task_id, last_heartbeat_at and pid are kept (pid NULL is 0).
NewAgent(status, pid, now) ==
    [status |-> status, current_task_id |-> 0, last_heartbeat_at |-> now,
     pid |-> pid]

\* The depends_on lists a task is created with: up to MaxDeps task ids.
RECURSIVE SeqsUpTo(_, _)
SeqsUpTo(S, n) ==
    IF n = 0 THEN {<<>>}
    ELSE LET shorter == SeqsUpTo(S, n - 1)
         IN shorter \cup {Append(q, x) : q \in {r \in shorter : Len(r) = n - 1},
                                         x \in S}
DependsOnLists == SeqsUpTo(TaskIds, MaxDeps)

IdleProc == [pc |-> "idle", op |-> "none", agent_id |-> 0, term |-> 0,
             rows |-> <<>>, deps |-> <<>>, task_id |-> 0]

\* get_current_term: leader.term if leader else 0
CurrentTerm ==
    IF LeaderRow(leader) = {} THEN 0
    ELSE (CHOOSE r \in LeaderRow(leader) : TRUE).term

\* create_task: INSERT INTO tasks.  Ids are handed out in order.
CreateTask(priority, depends_on) ==
    /\ Cardinality(DOMAIN tasks) < NumTasks
    /\ LET id == Cardinality(DOMAIN tasks) + 1
       IN tasks' = [t \in DOMAIN tasks \cup {id} |->
                       IF t = id THEN NewTask(priority, depends_on, clock)
                                 ELSE tasks[t]]
          /\ winners' = [t \in DOMAIN tasks \cup {id} |->
                           IF t = id THEN <<>> ELSE winners[t]]
    /\ UNCHANGED <<restVars, clock, leaderVars, agents, proc>>

\* ORDER BY priority DESC, created_at ASC: row a may come before row b.
MayPrecedeByAge(tbl, a, b) == tbl[a].created_at <= tbl[b].created_at
MayPrecede(tbl, a, b) ==
    \/ tbl[a].priority > tbl[b].priority
    \/ tbl[a].priority = tbl[b].priority /\ tbl[a].created_at <= tbl[b].created_at

\* SELECT * FROM tasks WHERE status = 'pending'
PendingIds(tbl) == {t \in DOMAIN tbl : tbl[t].status = "pending"}

\* The orders in which the SELECT of get_next_pending_task may return the
\* pending rows: rows equal in priority and created_at come in any order.
OrderedPending(tbl) ==
    LET ids == PendingIds(tbl)
        n == Cardinality(ids)
    IN {q \in [1..n -> ids] :
           /\ \A i, j \in 1..n : i # j => q[i] # q[j]
           /\ \A i, j \in 1..n : i < j => MayPrecede(tbl, q[i], q[j])}

\* The loop of get_next_pending_task up to its next statement (depends_on is
\* written once, by create_task, so the fetched row and the table agree on
\* it): rows without
\* dependencies are returned at once (_dependencies_met reads nothing for
\* them); for a row with dependencies the first get_task is next.
RECURSIVE ScanRows(_, _)
ScanRows(c, rows) ==
    IF rows = <<>>
       THEN IdleProc
       ELSE IF DependsOn(tasks[Head(rows)]) = <<>>
               THEN [c EXCEPT !.pc = "claim", !.rows = <<>>, !.deps = <<>>,
                              !.task_id = Head(rows)]
               ELSE [c EXCEPT !.pc = "dep", !.rows = rows,
                              !.deps = DependsOn(tasks[Head(rows)]),
                              !.task_id = 0]

\* _dependencies_met, one dependency: not dep_task or dep_task.status != DONE
DependencyUnmetIfMissing(tbl, dep_id) ==
    dep_id \notin DOMAIN tbl
DependencyUnmet(tbl, dep_id) ==
    dep_id \notin DOMAIN tbl \/ tbl[dep_id].status # "done"

\* claim_task: UPDATE tasks SET status = 'claimed', claimed_by = ?,
\* claimed_at = ?, claim_term = ? WHERE id = ? AND status = 'pending'
ClaimMatchesAnyStatus(tbl, task_id) ==
    {t \in DOMAIN tbl : t = task_id}
ClaimMatches(tbl, task_id) ==
    {t \in DOMAIN tbl : t = task_id /\ tbl[t].status = "pending"}
ClaimUpdateFenced(tbl, task_id, agent_id, term, now) ==
    [t \in DOMAIN tbl |->
        IF t = task_id /\ tbl[t].status = "pending"
           /\ \A r \in leader : term >= r.term
           THEN [tbl[t] EXCEPT !.status = "claimed", !.claimed_by = agent_id,
                               !.claimed_at = now, !.claim_term = term]
           ELSE tbl[t]]
ClaimUpdate(tbl, task_id, agent_id, term, now) ==
    [t \in DOMAIN tbl |->
        IF t \in ClaimMatches(tbl, task_id)
           THEN [tbl[t] EXCEPT !.status = "claimed", !.claimed_by = agent_id,
                               !.claimed_at = now, !.claim_term = term]
           ELSE tbl[t]]

\* complete_task: UPDATE tasks SET status = 'done', completed_at = ?,
\* result = ? WHERE id = ? AND claimed_by = ? AND status = 'claimed'
FinishMatchesAnyAgent(tbl, task_id, agent_id) ==
    {t \in DOMAIN tbl : t = task_id /\ tbl[t].status = "claimed"}
FinishMatches(tbl, task_id, agent_id) ==
    {t \in DOMAIN tbl : t = task_id /\ tbl[t].claimed_by = agent_id
                                    /\ tbl[t].status = "claimed"}
CompleteUpdate(tbl, task_id, agent_id, now) ==
    [t \in DOMAIN tbl |->
        IF t \in FinishMatches(tbl, task_id, agent_id)
           THEN [tbl[t] EXCEPT !.status = "done", !.completed_at = now,
                               !.result = "result"]
           ELSE tbl[t]]

\* fail_task: UPDATE tasks SET status = 'failed', error = ?,
\* retry_count = retry_count + 1
\* WHERE id = ? AND claimed_by = ? AND status = 'claimed'
FailUpdate(tbl, task_id, agent_id, now) ==
    [t \in DOMAIN tbl |->
        IF t \in FinishMatches(tbl, task_id, agent_id)
           THEN [tbl[t] EXCEPT !.status = "failed", !.error = "error",
                               !.retry_count = @ + 1]
           ELSE tbl[t]]

\* abandon_task: UPDATE tasks SET status = 'abandoned', claimed_by = NULL,
\* error = ?, retry_count = retry_count + 1 WHERE id = ? AND status = 'claimed'
AbandonMatches(tbl, task_id) ==
    {t \in DOMAIN tbl : t = task_id /\ tbl[t].status = "claimed"}
AbandonKeepsClaimant(tbl, task_id) ==
    [t \in DOMAIN tbl |->
        IF t \in AbandonMatches(tbl, task_id)
           THEN [tbl[t] EXCEPT !.status = "abandoned",
                               !.error = "reason", !.retry_count = @ + 1]
           ELSE tbl[t]]
AbandonKeepsRetryCount(tbl, task_id) ==
    [t \in DOMAIN tbl |->
        IF t \in AbandonMatches(tbl, task_id)
           THEN [tbl[t] EXCEPT !.status = "abandoned", !.claimed_by = 0,
                               !.error = "reason"]
           ELSE tbl[t]]
AbandonUpdate(tbl, task_id) ==
    [t \in DOMAIN tbl |->
        IF t \in AbandonMatches(tbl, task_id)
           THEN [tbl[t] EXCEPT !.status = "abandoned", !.claimed_by = 0,
                               !.error = "reason", !.retry_count = @ + 1]
           ELSE tbl[t]]

\* requeue_abandoned_tasks: UPDATE tasks SET status = 'pending'
\* WHERE status = 'abandoned' AND retry_count < max_retries
RequeueMatchesFailedToo(tbl) ==
    {t \in DOMAIN tbl : tbl[t].status \in {"abandoned", "failed"}
                        /\ tbl[t].retry_count < tbl[t].max_retries}
RequeueMatchesUpToCap(tbl) ==
    {t \in DOMAIN tbl : tbl[t].status = "abandoned"
                        /\ tbl[t].retry_count <= tbl[t].max_retries}
RequeueMatches(tbl) ==
    {t \in DOMAIN tbl : tbl[t].status = "abandoned"
                        /\ tbl[t].retry_count < tbl[t].max_retries}
RequeueUpdate(tbl) ==
    [t \in DOMAIN tbl |->
        IF t \in RequeueMatches(tbl) THEN [tbl[t] EXCEPT !.status = "pending"]
                                     ELSE tbl[t]]

\* update_agent_task: UPDATE agents SET current_task_id = ? WHERE id = ?
UpdateAgentTask(tbl, agent_id, task_id) ==
    [a \in DOMAIN tbl |->
        IF a = agent_id THEN [tbl[a] EXCEPT !.current_task_id = task_id]
                        ELSE tbl[a]]

\* Coordinator.claim_next_task: term = self.db.get_current_term()
StartClaimNext(p, agent_id) ==
    /\ proc[p].pc = "idle"
    /\ proc' = [proc EXCEPT ![p] = [IdleProc EXCEPT !.pc = "select", !.op = "next",
                                                   !.agent_id = agent_id,
                                                   !.term = CurrentTerm]]
    /\ UNCHANGED <<restVars, clock, leaderVars, tasks, agents, winners>>

\* get_next_pending_task: the SELECT of the pending rows, and the loop up to
\* its first get_task.
SelectPending(p) ==
    /\ proc[p].pc = "select"
    /\ \E rows \in OrderedPending(tasks) :
          proc' = [proc EXCEPT ![p] = ScanRows(proc[p], rows)]
    /\ UNCHANGED <<restVars, clock, leaderVars, tasks, agents, winners>>

\* _dependencies_met: one get_task(dep_id), and the loop up to the next one.
CheckDependency(p) ==
    /\ proc[p].pc = "dep"
    /\ LET c == proc[p] IN
       proc' = [proc EXCEPT ![p] =
                  IF DependencyUnmet(tasks, Head(c.deps))
                     THEN ScanRows(c, Tail(c.rows))
                     ELSE IF Tail(c.deps) = <<>>
                             THEN [c EXCEPT !.pc = "claim", !.rows = <<>>,
                                            !.deps = <<>>,
                                            !.task_id = Head(c.rows)]
                             ELSE [c EXCEPT !.deps = Tail(c.deps)]]
    /\ UNCHANGED <<restVars, clock, leaderVars, tasks, agents, winners>>

\* Coordinator.claim_specific_task: term = self.db.get_current_term()
StartClaimSpecific(p, agent_id, task_id) ==
    /\ proc[p].pc = "idle"
    /\ proc' = [proc EXCEPT ![p] = [IdleProc EXCEPT !.pc = "claim",
                                                   !.op = "specific",
                                                   !.agent_id = agent_id,
                                                   !.term = CurrentTerm,
                                                   !.task_id = task_id]]
    /\ UNCHANGED <<restVars, clock, leaderVars, tasks, agents, winners>>

\* The winners after a claim_task(task_id, agent_id, ...) call on tbl.
ClaimReturn(tbl, task_id) == Cardinality(ClaimMatches(tbl, task_id)) = 1
Won(tbl, task_id, agent_id) ==
    [t \in DOMAIN winners |->
        IF t = task_id /\ ClaimReturn(tbl, task_id)
           THEN Append(winners[t], agent_id) ELSE winners[t]]

\* self.db.claim_task(task.id, agent_id, term) of claim_next_task and
\* claim_specific_task; on failure they return None.
ClaimTask(p) ==
    /\ proc[p].pc = "claim"
    /\ LET c == proc[p] IN
       /\ tasks' = ClaimUpdate(tasks, c.task_id, c.agent_id, c.term, clock)
       /\ winners' = Won(tasks, c.task_id, c.agent_id)
       /\ proc' = [proc EXCEPT ![p] =
                     IF ClaimReturn(tasks, c.task_id)
                        THEN [c EXCEPT !.pc = "setptr"] ELSE IdleProc]
    /\ UNCHANGED <<restVars, clock, leaderVars, agents>>

\* self.db.update_agent_task(agent_id, task.id); return
\* self.db.get_task(task.id) (a read of the row just claimed)
SetAgentTask(p) ==
    /\ proc[p].pc = "setptr"
    /\ agents' = UpdateAgentTask(agents, proc[p].agent_id, proc[p].task_id)
    /\ proc' = [proc EXCEPT ![p] = IdleProc]
    /\ UNCHANGED <<restVars, clock, leaderVars, tasks, winners>>

\* Database.claim_task called directly, with any term.
DbClaimTask(task_id, agent_id, term) ==
    /\ task_id \in DOMAIN tasks
    /\ tasks' = ClaimUpdate(tasks, task_id, agent_id, term, clock)
    /\ winners' = Won(tasks, task_id, agent_id)
    /\ UNCHANGED <<restVars, clock, leaderVars, agents, proc>>

\* Database.complete_task / Database.fail_task
FinishUpdate(tbl, op, task_id, agent_id, now) ==
    IF op = "complete" THEN CompleteUpdate(tbl, task_id, agent_id, now)
                       ELSE FailUpdate(tbl, task_id, agent_id, now)

DbFinishTask(op, task_id, agent_id) ==
    /\ FinishMatches(tasks, task_id, agent_id) # {}
    /\ tasks' = FinishUpdate(tasks, op, task_id, agent_id, clock)
    /\ UNCHANGED <<restVars, clock, leaderVars, agents, proc, winners>>

\* Database.abandon_task, as called by the recovery sweeps, leave and kill.
DbAbandonTask(task_id) ==
    /\ AbandonMatches(tasks, task_id) # {}
    /\ tasks' = AbandonUpdate(tasks, task_id)
    /\ UNCHANGED <<restVars, clock, leaderVars, agents, proc, winners>>

\* Database.requeue_abandoned_tasks
DbRequeue ==
    /\ RequeueMatches(tasks) # {}
    /\ tasks' = RequeueUpdate(tasks)
    /\ winners' = [t \in DOMAIN winners |->
                     IF t \in RequeueMatches(tasks) THEN <<>> ELSE winners[t]]
    /\ UNCHANGED <<restVars, clock, leaderVars, agents, proc>>

\* Coordinator.complete_task / fail_task(agent_id, task_id): with task_id
\* None (0) the agent row is read, and the call returns False when the agent
\* is missing or has no current task.
StartFinish(p, op, agent_id, task_id) ==
    /\ proc[p].pc = "idle"
    /\ task_id = 0 => (agent_id \in DOMAIN agents
                       /\ agents[agent_id].current_task_id # 0)
    /\ proc' = [proc EXCEPT ![p] =
                  [IdleProc EXCEPT !.pc = "finish", !.op = op,
                                   !.agent_id = agent_id,
                                   !.task_id =
                                      IF task_id = 0
                                         THEN agents[agent_id].current_task_id
                                         ELSE task_id]]
    /\ UNCHANGED <<restVars, clock, leaderVars, tasks, agents, winners>>

\* self.db.complete_task(task_id, agent_id, result) /
\* self.db.fail_task(task_id, agent_id, error); on failure return False
FinishTask(p) ==
    /\ proc[p].pc = "finish"
    /\ LET c == proc[p] IN
       /\ tasks' = FinishUpdate(tasks, c.op, c.task_id, c.agent_id, clock)
       /\ proc' = [proc EXCEPT ![p] =
                     IF Cardinality(FinishMatches(tasks, c.task_id, c.agent_id)) = 1
                        THEN [c EXCEPT !.pc = "clearptr"] ELSE IdleProc]
    /\ UNCHANGED <<restVars, clock, leaderVars, agents, winners>>

\* self.db.update_agent_task(agent_id, None); return True
ClearAgentTask(p) ==
    /\ proc[p].pc = "clearptr"
    /\ agents' = UpdateAgentTask(agents, proc[p].agent_id, 0)
    /\ proc' = [proc EXCEPT ![p] = IdleProc]
    /\ UNCHANGED <<restVars, clock, leaderVars, tasks, winners>>

\* ----------------------------------------------------- specifications

\* The store after init_schema, before any election.
InitLeader ==
    /\ clock = 0
    /\ leader = {}
    /\ elect = [p \in Procs |-> IdleElect]
    /\ lastElect = NoElect
    /\ won = {}
    /\ tasks = <<>>
    /\ agents = <<>>
    /\ proc = [p \in Workers |-> IdleProc]
    /\ winners = <<>>
    /\ RestInit

NextLeader ==
    \/ \E p \in Procs : BeginElect(p)
    \/ \E p \in Procs, a \in Agents, l \in Leases : TxnElect(p, a, l)
    \/ Tick

SpecLeader == InitLeader /\ [][NextLeader]_vars

\* The store after init_schema and one create_agent per agent.
Init ==
    /\ clock = 0
    /\ leader = {}
    /\ elect = [p \in Procs |-> IdleElect]
    /\ lastElect = NoElect
    /\ won = {}
    /\ tasks = <<>>
    /\ agents = [a \in Agents |-> NewAgent("active", 0, 0)]
    /\ proc = [p \in Workers |-> IdleProc]
    /\ winners = <<>>
    /\ RestInit

Next ==
    \/ \E pr \in Priorities, d \in DependsOnLists : CreateTask(pr, d)
    \/ \E p \in Workers, a \in Agents : StartClaimNext(p, a)
    \/ \E p \in Workers : SelectPending(p)
    \/ \E p \in Workers : CheckDependency(p)
    \/ \E p \in Workers, a \in Agents, t \in TaskIds : StartClaimSpecific(p, a, t)
    \/ \E p \in Workers : ClaimTask(p)
    \/ \E p \in Workers : SetAgentTask(p)
    \/ \E t \in TaskIds, a \in Agents, term \in Terms : DbClaimTask(t, a, term)
    \/ \E op \in {"complete", "fail"}, t \in TaskIds, a \in Agents :
          DbFinishTask(op, t, a)
    \/ \E t \in TaskIds : DbAbandonTask(t)
    \/ DbRequeue

Spec == Init /\ [][Next]_vars

\* A store holding tasks already: each row as create_task, claim_task and
\* complete_task leave it (claimed and completed by agent 1 at creation time).
SeedRow(status, priority, depends_on, created_at) ==
    [NewTask(priority, depends_on, created_at) EXCEPT
        !.status = status,
        !.claimed_by = IF status = "pending" THEN 0 ELSE 1,
        !.claim_term = IF status = "pending" THEN -1 ELSE 0,
        !.claimed_at = IF status = "pending" THEN -1 ELSE created_at,
        !.completed_at = IF status = "done" THEN created_at ELSE -1,
        !.result = IF status = "done" THEN "result" ELSE "NULL"]
SeedRows ==
    {SeedRow(st, pr, d, c) : st \in {"pending", "claimed", "done"},
                             pr \in Priorities, d \in DependsOnLists,
                             c \in 0..MaxAge}

\* No claim_next_task call is in progress.
Quiet == \A p \in Workers : proc[p].pc = "idle"

InitSeq ==
    /\ clock = MaxAge
    /\ leader = {}
    /\ elect = [p \in Procs |-> IdleElect]
    /\ lastElect = NoElect
    /\ won = {}
    /\ tasks \in UNION {[1..n -> SeedRows] : n \in 1..NumRows}
    /\ agents = [a \in Agents |-> NewAgent("active", 0, 0)]
    /\ proc = [p \in Workers |-> IdleProc]
    /\ winners = [t \in DOMAIN tasks |->
                    IF tasks[t].status = "pending" THEN <<>> ELSE <<1>>]
    /\ RestInit

\* claim_next_task, called while no other call is in progress.
SeqStartClaimNext(p, agent_id) == Quiet /\ StartClaimNext(p, agent_id)

\* claim_next_task calls, one at a time, and nothing else.
NextSeq ==
    \/ \E p \in Workers, a \in Agents : SeqStartClaimNext(p, a)
    \/ \E p \in Workers : SelectPending(p)
    \/ \E p \in Workers : CheckDependency(p)
    \/ \E p \in Workers : ClaimTask(p)
    \/ \E p \in Workers : SetAgentTask(p)

SpecSeq == InitSeq /\ [][NextSeq]_vars

\* ------------------------------------------- the Database calls, returning
\* A Database call on the tasks table that has returned: its arguments, its
\* return value (ok, or the count n) and the table it found.
TaskRet(op, task_id, agent_id, ok, n, before) ==
    [op |-> op, task_id |-> task_id, agent_id |-> agent_id, ok |-> ok,
     n |-> n, before |-> before]

\* Database.complete_task / fail_task with any arguments:
\* return cursor.rowcount == 1
CallFinishTask(op, task_id, agent_id) ==
    /\ tasks' = FinishUpdate(tasks, op, task_id, agent_id, clock)
    /\ ret' = TaskRet(op, task_id, agent_id,
                      Cardinality(FinishMatches(tasks, task_id, agent_id)) = 1,
                      0, tasks)
    /\ UNCHANGED <<clock, leaderVars, agents, proc, winners,
                   events, messages, locks, pids, sweep>>

\* Database.requeue_abandoned_tasks: return cursor.rowcount
CallRequeue ==
    /\ tasks' = RequeueUpdate(tasks)
    /\ winners' = [t \in DOMAIN winners |->
                     IF t \in RequeueMatches(tasks) THEN <<>> ELSE winners[t]]
    /\ ret' = TaskRet("requeue", 0, 0, TRUE,
                      Cardinality(RequeueMatches(tasks)), tasks)
    /\ UNCHANGED <<clock, leaderVars, agents, proc,
                   events, messages, locks, pids, sweep>>

\* Processes calling the task operations of Database in any order.
NextDb ==
    \/ \E pr \in Priorities, d \in DependsOnLists : CreateTask(pr, d)
    \/ \E t \in TaskIds, a \in Agents, term \in Terms : DbClaimTask(t, a, term)
    \/ \E op \in {"complete", "fail"}, t \in TaskIds, a \in Agents :
          CallFinishTask(op, t, a)
    \/ \E t \in TaskIds : DbAbandonTask(t)
    \/ CallRequeue

SpecDb == Init /\ [][NextDb]_vars

\* ------------------------------------------------- liveness and recovery
\* The process table: a pid names no process ("gone": os.kill raises
\* ProcessLookupError), a process the caller may signal ("own") or a process
\* of another user ("foreign": os.kill raises PermissionError).
PidStates == {"gone", "own", "foreign"}

\* utils.process_exists: os.kill(pid, 0) returned; any OSError gives False
ProcessExists(pid) == pids[pid] = "own"

\* update_heartbeat: UPDATE agents SET last_heartbeat_at = ? WHERE id = ?
UpdateHeartbeatRevives(tbl, agent_id, now) ==
    [a \in DOMAIN tbl |->
        IF a = agent_id THEN [tbl[a] EXCEPT !.last_heartbeat_at = now,
                                            !.status = "active"]
                        ELSE tbl[a]]
UpdateHeartbeat(tbl, agent_id, now) ==
    [a \in DOMAIN tbl |->
        IF a = agent_id THEN [tbl[a] EXCEPT !.last_heartbeat_at = now]
                        ELSE tbl[a]]

\* update_agent_status: UPDATE agents SET status = ? WHERE id = ?
UpdateAgentStatus(tbl, agent_id, status) ==
    [a \in DOMAIN tbl |->
        IF a = agent_id THEN [tbl[a] EXCEPT !.status = status] ELSE tbl[a]]

\* get_all_agents(status): the rows fetched, as a list.  Ids stand for the
\* order of registered_at.
RECURSIVE RowsFrom(_, _, _)
RowsFrom(tbl, ids, i) ==
    IF i > NumAgents + NumTasks THEN <<>>
    ELSE IF i \in ids THEN <<[id |-> i, row |-> tbl[i]]>> \o RowsFrom(tbl, ids, i + 1)
         ELSE RowsFrom(tbl, ids, i + 1)
AgentsWithStatus(tbl, status) ==
    RowsFrom(tbl, {a \in DOMAIN tbl : tbl[a].status = status}, 1)

\* get_all_tasks(status = CLAIMED, claimed_by = agent_id)
ClaimedByAnyAgent(tbl, agent_id) ==
    {t \in DOMAIN tbl : tbl[t].status = "claimed"}
ClaimedBy(tbl, agent_id) ==
    {t \in DOMAIN tbl : tbl[t].status = "claimed" /\ tbl[t].claimed_by = agent_id}
\* get_all_tasks(status = CLAIMED)
ClaimedOrAbandonedTasks(tbl) ==
    RowsFrom(tbl, {t \in DOMAIN tbl : tbl[t].status \in {"claimed", "abandoned"}}, 1)
ClaimedTasksOfInactive(tbl) ==
    RowsFrom(tbl, {t \in DOMAIN tbl :
                      /\ tbl[t].status = "claimed"
                      /\ \A a \in DOMAIN agents :
                            a = tbl[t].claimed_by => agents[a].status # "active"}, 1)
ClaimedTasks(tbl) ==
    RowsFrom(tbl, {t \in DOMAIN tbl : tbl[t].status = "claimed"}, 1)

\* abandon_task for each task of a list fetched before
RECURSIVE AbandonAll(_, _)
AbandonAll(tbl, ids) ==
    IF ids = {} THEN tbl
    ELSE LET t == CHOOSE x \in ids : TRUE
         IN AbandonAll(AbandonUpdate(tbl, t), ids \ {t})

\* log_event: INSERT INTO events (the row without its id and timestamp)
Event(event_type, agent_id) == [event_type |-> event_type, agent_id |-> agent_id]

\* recover_dead_agents, per fetched agent: the heartbeat is stale
StaleHeartbeat(row, now) == ~(row.last_heartbeat_at >= now - DeadThreshold)
\* ... and the process is taken to be alive: agent.pid and process_exists
TakenAlive(row) == row.pid # 0 /\ ProcessExists(row.pid)

\* recover_stale_tasks, per fetched task:
\* task.claimed_at and task.claimed_at < threshold
StaleClaimAfterTwice(row, now) ==
    row.claimed_at # -1 /\ row.claimed_at < now - ClaimTimeout - ClaimTimeout
StaleClaim(row, now) == row.claimed_at # -1 /\ row.claimed_at < now - ClaimTimeout

\* A recovery call that has returned: the list of recover_dead_agents, the
\* count of recover_stale_tasks and the count of requeue_abandoned_tasks.
SweepRet(op, dead_agents, stale_tasks, requeued_tasks) ==
    [op |-> op, dead_agents |-> dead_agents, stale_tasks |-> stale_tasks,
     requeued_tasks |-> requeued_tasks]

SweepOps == {"run_recovery", "recover_dead_agents", "recover_stale_tasks"}

\* recover_dead_agents: now, threshold, get_all_agents(status = ACTIVE);
\* recover_stale_tasks: now, threshold, get_all_tasks(status = CLAIMED)
StartSweep(op) ==
    /\ sweep.pc = "idle"
    /\ sweep' = [pc |-> IF op = "recover_stale_tasks" THEN "stale" ELSE "dead",
                 op |-> op, now |-> clock,
                 rows |-> IF op = "recover_stale_tasks"
                             THEN ClaimedTasks(tasks)
                             ELSE AgentsWithStatus(agents, "active"),
                 dead |-> <<>>, stale |-> 0,
                 before |-> [tasks |-> tasks, agents |-> agents, pids |-> pids]]
    /\ UNCHANGED <<clock, leaderVars, taskVars, ret, events, messages, locks, pids>>

\* recover_dead_agents, one turn of the loop over the fetched agents; for a
\* dead agent _recover_agent: update_agent_status, get_all_tasks,
\* abandon_task for each, log_event.
RecoverDeadStep ==
    /\ sweep.pc = "dead" /\ sweep.rows # <<>>
    /\ LET id == Head(sweep.rows).id
           row == Head(sweep.rows).row
           rest == [sweep EXCEPT !.rows = Tail(sweep.rows)]
       IN IF ~StaleHeartbeat(row, sweep.now)
             THEN /\ sweep' = rest
                  /\ UNCHANGED <<agents, tasks, events>>
             ELSE IF TakenAlive(row)
                     THEN /\ events' = events \cup {Event("agent_unresponsive", id)}
                          /\ sweep' = rest
                          /\ UNCHANGED <<agents, tasks>>
                     ELSE /\ agents' = UpdateAgentStatus(agents, id, "dead")
                          /\ tasks' = AbandonAll(tasks, ClaimedBy(tasks, id))
                          /\ events' = events \cup {Event("agent_died", id)}
                          /\ sweep' = [rest EXCEPT !.dead = Append(@, id)]
    /\ UNCHANGED <<clock, leaderVars, proc, winners, ret, messages, locks, pids>>

\* recover_dead_agents returns; run_recovery goes on to recover_stale_tasks.
DeadAgentsDone ==
    /\ sweep.pc = "dead" /\ sweep.rows = <<>>
    /\ IF sweep.op = "recover_dead_agents"
          THEN /\ ret' = SweepRet(sweep.op, sweep.dead, 0, 0)
               /\ sweep' = NoSweep
          ELSE /\ sweep' = [sweep EXCEPT !.pc = "stale", !.now = clock,
                                         !.rows = ClaimedTasks(tasks)]
               /\ UNCHANGED ret
    /\ UNCHANGED <<clock, leaderVars, taskVars, events, messages, locks, pids>>

\* recover_stale_tasks, one turn of the loop over the fetched tasks:
\* abandon_task, recovered += 1
RecoverStaleStep ==
    /\ sweep.pc = "stale" /\ sweep.rows # <<>>
    /\ LET id == Head(sweep.rows).id
           row == Head(sweep.rows).row
           rest == [sweep EXCEPT !.rows = Tail(sweep.rows)]
       IN IF StaleClaim(row, sweep.now)
             THEN /\ tasks' = AbandonUpdate(tasks, id)
                  /\ sweep' = [rest EXCEPT !.stale = @ + 1]
             ELSE /\ sweep' = rest
                  /\ UNCHANGED tasks
    /\ UNCHANGED <<clock, leaderVars, agents, proc, winners,
                   ret, events, messages, locks, pids>>

\* recover_stale_tasks returns; run_recovery goes on to the re-queue.
StaleTasksDone ==
    /\ sweep.pc = "stale" /\ sweep.rows = <<>>
    /\ IF sweep.op = "recover_stale_tasks"
          THEN /\ ret' = SweepRet(sweep.op, <<>>, sweep.stale, 0)
               /\ sweep' = NoSweep
          ELSE /\ sweep' = [sweep EXCEPT !.pc = "requeue"]
               /\ UNCHANGED ret
    /\ UNCHANGED <<clock, leaderVars, taskVars, events, messages, locks, pids>>

\* run_recovery: requeued = self.db.requeue_abandoned_tasks(); return
SweepRequeue ==
    /\ sweep.pc = "requeue"
    /\ tasks' = RequeueUpdate(tasks)
    /\ winners' = [t \in DOMAIN winners |->
                     IF t \in RequeueMatches(tasks) THEN <<>> ELSE winners[t]]
    /\ ret' = SweepRet(sweep.op, sweep.dead, sweep.stale,
                       Cardinality(RequeueMatches(tasks)))
    /\ sweep' = NoSweep
    /\ UNCHANGED <<clock, leaderVars, agents, proc, events, messages, locks, pids>>

\* A store in use.  An agent row as create_agent and update_heartbeat leave
\* it, the heartbeat age at the threshold or one past it; an idle agent has
\* no process.
SeedAgent(status, age, pid, task_id) ==
    [NewAgent(status, pid, MaxClock - age) EXCEPT !.current_task_id = task_id]
SeedAgents ==
    {SeedAgent("active", age, pid, t) :
        age \in {DeadThreshold, DeadThreshold + 1}, pid \in {0} \cup Agents,
        t \in {0} \cup TaskIds}
    \cup {SeedAgent("idle", DeadThreshold + 1, 0, 0)}

\* A task row as create_task, claim_task, abandon_task and
\* requeue_abandoned_tasks leave it: pending, claimed by an agent (the claim
\* as old as the timeout or older, after retry_count abandonments) or
\* abandoned.
SeedTask(status, agent_id, age, retry_count) ==
    [NewTask(MaxPriority, <<>>, 0) EXCEPT
        !.status = status,
        !.claimed_by = agent_id,
        !.claim_term = IF status = "pending" THEN -1 ELSE 0,
        !.claimed_at = IF status = "pending" THEN -1 ELSE MaxClock - age,
        !.retry_count = retry_count,
        !.error = IF retry_count = 0 THEN "NULL" ELSE "reason"]
SeedTasks ==
    {NewTask(MaxPriority, <<>>, 0)}
    \cup {SeedTask("claimed", a, age, r) :
             a \in Agents, age \in {ClaimTimeout, ClaimTimeout + 1},
             r \in {0, MaxRetries - 1}}
    \cup {SeedTask("abandoned", 0, ClaimTimeout + 1, r) : r \in {1, MaxRetries}}

InitRecovery ==
    /\ clock = MaxClock
    /\ leader = {}
    /\ elect = [p \in Procs |-> IdleElect]
    /\ lastElect = NoElect
    /\ won = {}
    /\ tasks \in UNION {[1..n -> SeedTasks] : n \in 1..NumTasks}
    /\ agents \in [Agents -> SeedAgents]
    /\ \A a \in Agents :
          /\ agents[a].pid \in {0, a}
          /\ agents[a].current_task_id \in {0} \cup ClaimedBy(tasks, a)
    /\ proc = [p \in Workers |-> IdleProc]
    /\ winners = [t \in DOMAIN tasks |->
                    IF tasks[t].status = "pending" THEN <<>>
                    ELSE IF tasks[t].status = "claimed"
                            THEN <<tasks[t].claimed_by>> ELSE <<1>>]
    /\ ret = NoRet
    /\ events = {}
    /\ messages = <<>>
    /\ locks = {}
    /\ pids \in [Agents -> PidStates]
    /\ \A a \in Agents : agents[a].pid = 0 => pids[a] = "gone"
    /\ sweep = NoSweep

\* Recovery calls, one at a time, and nothing else.
NextRecovery ==
    \/ \E op \in SweepOps : StartSweep(op)
    \/ RecoverDeadStep
    \/ DeadAgentsDone
    \/ RecoverStaleStep
    \/ StaleTasksDone
    \/ SweepRequeue

SpecRecovery == InitRecovery /\ [][NextRecovery]_vars

\* ---------------------------------------------------------------- messages
\* A messages row keeps from_agent, to_agent (0 is NULL: a broadcast),
\* created_at and read_at (-1 is NULL); content and message_type are payload.
\* The id of a row (INTEGER PRIMARY KEY AUTOINCREMENT) is its index.
NewMessage(from_agent, to_agent, now) ==
    [from_agent |-> from_agent, to_agent |-> to_agent,
     created_at |-> now, read_at |-> -1]

\* get_messages: the default of its limit parameter.
Limit == 50

\* get_messages: WHERE (to_agent = ? OR to_agent IS NULL), and with
\* unread_only AND read_at IS NULL.  With to_agent None every row is kept.
Selects(row, to_agent, unread_only) ==
    /\ to_agent # 0 => (row.to_agent = to_agent \/ row.to_agent = 0)
    /\ unread_only => row.read_at = -1

\* ORDER BY created_at DESC: the ids from i down to 1 (created_at never
\* decreases with the id).
RECURSIVE MessagesFrom(_, _, _, _)
MessagesFrom(tbl, i, to_agent, unread_only) ==
    IF i = 0 THEN <<>>
    ELSE (IF Selects(tbl[i], to_agent, unread_only) THEN <<i>> ELSE <<>>)
         \o MessagesFrom(tbl, i - 1, to_agent, unread_only)

\* get_messages: ... LIMIT ?
GetMessages(tbl, to_agent, unread_only, limit) ==
    LET found == MessagesFrom(tbl, Len(tbl), to_agent, unread_only)
    IN  IF Len(found) > limit THEN SubSeq(found, 1, limit) ELSE found

\* mark_messages_read: UPDATE messages SET read_at = ?
\* WHERE id IN (...) AND (to_agent = ? OR to_agent IS NULL)
MarkMessagesRead(tbl, agent_id, message_ids, now) ==
    [i \in DOMAIN tbl |->
        IF i \in message_ids
           /\ (tbl[i].to_agent = agent_id \/ tbl[i].to_agent = 0)
           THEN [tbl[i] EXCEPT !.read_at = now]
           ELSE tbl[i]]

\* History: the pairs <<message id, agent>> such that an inbox call of the
\* agent has returned the message.
Fetched == IF ret.op = "inbox" THEN ret.fetched ELSE {}
Range(s) == {s[i] : i \in DOMAIN s}

\* Database.create_message
CreateMessage(from_agent, to_agent) ==
    /\ Len(messages) < MaxMessages
    /\ messages' = Append(messages, NewMessage(from_agent, to_agent, clock))
    /\ UNCHANGED <<clock, leaderVars, taskVars, ret, events, locks, pids, sweep>>

\* cli inbox: update_heartbeat, get_messages(to_agent, unread_only); with
\* --json or no message it returns; else mark_messages_read for the fetched
\* messages that have read_at None.
Inbox(agent_id, unread, as_json) ==
    LET shown == GetMessages(messages, agent_id, unread, Limit)
        message_ids == {i \in Range(shown) : messages[i].read_at = -1}
    IN  /\ agents' = UpdateHeartbeat(agents, agent_id, clock)
        /\ messages' = IF as_json \/ shown = <<>> \/ message_ids = {}
                          THEN messages
                          ELSE MarkMessagesRead(messages, agent_id,
                                                message_ids, clock)
        /\ ret' = [op |-> "inbox", agent_id |-> agent_id,
                   unread |-> unread, shown |-> shown, before |-> messages,
                   fetched |-> Fetched \cup {<<i, agent_id>> : i \in Range(shown)}]
        /\ UNCHANGED <<clock, leaderVars, tasks, proc, winners,
                       events, locks, pids, sweep>>

\* Agents sending messages and reading their inboxes.
NextInbox ==
    \/ \E a \in Agents, to \in {0} \cup Agents : CreateMessage(a, to)
    \/ \E a \in Agents, unread \in BOOLEAN, as_json \in BOOLEAN :
          Inbox(a, unread, as_json)
    \/ Tick

SpecInbox == Init /\ [][NextInbox]_vars

\* -------------------------------------------------------------- file locks
\* A file_locks row: file_path TEXT PRIMARY KEY, agent_id, locked_at.
Paths == 1..NumPaths
NewLock(file_path, agent_id, now) ==
    [file_path |-> file_path, agent_id |-> agent_id, locked_at |-> now]

\* INSERT INTO file_locks raises IntegrityError: a row has the primary key.
KeyTakenByAgent(tbl, file_path, agent_id) ==
    \E r \in tbl : r.file_path = file_path /\ r.agent_id = agent_id
KeyTaken(tbl, file_path, agent_id) ==
    \E r \in tbl : r.file_path = file_path

\* DELETE FROM file_locks WHERE file_path = ? AND agent_id = ?
UnlockMatches(tbl, file_path, agent_id) ==
    {r \in tbl : r.file_path = file_path /\ r.agent_id = agent_id}

LockRet(op, file_path, agent_id, ok, before) ==
    [op |-> op, file_path |-> file_path, agent_id |-> agent_id, ok |-> ok,
     before |-> before]

\* Database.lock_file
LockFile(file_path, agent_id) ==
    /\ IF KeyTaken(locks, file_path, agent_id)
          THEN /\ ret' = LockRet("lock_file", file_path, agent_id, FALSE, locks)
               /\ UNCHANGED <<locks, events>>
          ELSE /\ locks' = locks \cup {NewLock(file_path, agent_id, clock)}
               /\ events' = events \cup {Event("file_locked", agent_id)}
               /\ ret' = LockRet("lock_file", file_path, agent_id, TRUE, locks)
    /\ UNCHANGED <<clock, leaderVars, taskVars, messages, pids, sweep>>

\* Database.unlock_file
UnlockFile(file_path, agent_id) ==
    /\ locks' = locks \ UnlockMatches(locks, file_path, agent_id)
    /\ IF Cardinality(UnlockMatches(locks, file_path, agent_id)) = 1
          THEN /\ events' = events \cup {Event("file_unlocked", agent_id)}
               /\ ret' = LockRet("unlock_file", file_path, agent_id, TRUE, locks)
          ELSE /\ events' = events
               /\ ret' = LockRet("unlock_file", file_path, agent_id, FALSE, locks)
    /\ UNCHANGED <<clock, leaderVars, taskVars, messages, pids, sweep>>

\* Database.release_agent_locks: DELETE FROM file_locks WHERE agent_id = ?
ReleaseAgentLocks(agent_id) ==
    /\ locks' = {r \in locks : r.agent_id # agent_id}
    /\ ret' = LockRet("release_agent_locks", 0, agent_id, TRUE, locks)
    /\ UNCHANGED <<clock, leaderVars, taskVars, events, messages, pids, sweep>>

\* Agents locking and unlocking files in any order.
NextLocks ==
    \/ \E f \in Paths, a \in Agents : LockFile(f, a)
    \/ \E f \in Paths, a \in Agents : UnlockFile(f, a)
    \/ \E a \in Agents : ReleaseAgentLocks(a)
    \/ Tick

SpecLocks == Init /\ [][NextLocks]_vars

\* ------------------------------------------------------------- the agents
\* Database.create_agent: INSERT INTO agents, log_event("agent_joined").
\* The id is the primary key.
CreateAgent(agent_id, pid) ==
    /\ agent_id \notin DOMAIN agents
    /\ agents' = [a \in DOMAIN agents \cup {agent_id} |->
                     IF a = agent_id THEN NewAgent("active", pid, clock)
                                     ELSE agents[a]]
    /\ events' = events \cup {Event("agent_joined", agent_id)}
    /\ UNCHANGED <<clock, leaderVars, tasks, proc, winners,
                   ret, messages, locks, pids, sweep>>

\* Database.delete_agent: DELETE FROM agents WHERE id = ?,
\* log_event("agent_left")
DeleteAgent(agent_id) ==
    /\ agents' = [a \in DOMAIN agents \ {agent_id} |-> agents[a]]
    /\ events' = events \cup {Event("agent_left", agent_id)}
    /\ UNCHANGED <<clock, leaderVars, tasks, proc, winners,
                   ret, messages, locks, pids, sweep>>

\* Database.update_agent_status(agent_id, DEAD), the statement with which
\* recovery and the kill command mark an agent.
MarkDead(agent_id) ==
    /\ agents' = UpdateAgentStatus(agents, agent_id, "dead")
    /\ UNCHANGED <<clock, leaderVars, tasks, proc, winners, restVars>>

\* Database.update_heartbeat with any agent id; ret keeps the call and the
\* table it found.
Heartbeat(agent_id) ==
    /\ agents' = UpdateHeartbeat(agents, agent_id, clock)
    /\ ret' = [op |-> "update_heartbeat", agent_id |-> agent_id,
               before |-> agents]
    /\ UNCHANGED <<clock, leaderVars, tasks, proc, winners,
                   events, messages, locks, pids, sweep>>

\* A store with one task, one broadcast message, one file lock and no agent.
InitHeartbeat ==
    /\ clock = 0
    /\ leader = {}
    /\ elect = [p \in Procs |-> IdleElect]
    /\ lastElect = NoElect
    /\ won = {}
    /\ tasks = <<NewTask(MaxPriority, <<>>, 0)>>
    /\ agents = <<>>
    /\ proc = [p \in Workers |-> IdleProc]
    /\ winners = <<<<>>>>
    /\ ret = NoRet
    /\ events = {}
    /\ messages = <<NewMessage(1, 0, 0)>>
    /\ locks = {NewLock(1, 1, 0)}
    /\ pids = <<>>
    /\ sweep = NoSweep

\* Agents joining, leaving, being marked dead and sending heartbeats.
NextHeartbeat ==
    \/ \E a \in Agents : \E pid \in {0, a} : CreateAgent(a, pid)
    \/ \E a \in Agents : DeleteAgent(a)
    \/ \E a \in Agents : MarkDead(a)
    \/ \E a \in Agents : Heartbeat(a)
    \/ Tick

SpecHeartbeat == InitHeartbeat /\ [][NextHeartbeat]_vars

\* ------------------------------------------------- the Coordinator alone
\* Every claim, completion and failure goes through the Coordinator, one
\* call at a time per process.
NextCoord ==
    \/ \E pr \in Priorities, d \in DependsOnLists : CreateTask(pr, d)
    \/ \E p \in Workers, a \in Agents : StartClaimNext(p, a)
    \/ \E p \in Workers : SelectPending(p)
    \/ \E p \in Workers : CheckDependency(p)
    \/ \E p \in Workers : ClaimTask(p)
    \/ \E p \in Workers : SetAgentTask(p)
    \/ \E p \in Workers, op \in {"complete", "fail"}, a \in Agents,
          t \in {0} \cup TaskIds : StartFinish(p, op, a, t)
    \/ \E p \in Workers : FinishTask(p)
    \/ \E p \in Workers : ClearAgentTask(p)

SpecCoord == Init /\ [][NextCoord]_vars

\* ------------------------------------------------------ claims and terms
\* The terms a caller of Database.claim_task may supply.
FenceTerms == 0..MaxFenceTerm

\* Database.claim_task with any arguments: return cursor.rowcount == 1
CallClaimTask(task_id, agent_id, term) ==
    /\ tasks' = ClaimUpdate(tasks, task_id, agent_id, term, clock)
    /\ winners' = Won(tasks, task_id, agent_id)
    /\ ret' = [op |-> "claim", task_id |-> task_id, agent_id |-> agent_id,
               term |-> term, ok |-> ClaimReturn(tasks, task_id),
               before |-> tasks]
    /\ UNCHANGED <<clock, leaderVars, agents, proc,
                   events, messages, locks, pids, sweep>>

\* Claims through the Coordinator while one process at a time calls
\* try_become_leader, all within one tick of the clock.
NextFence ==
    \/ CreateTask(MaxPriority, <<>>)
    \/ \E p \in Workers, a \in Agents : StartClaimNext(p, a)
    \/ \E p \in Workers : SelectPending(p)
    \/ \E p \in Workers : ClaimTask(p)
    \/ \E p \in Workers : SetAgentTask(p)
    \/ BeginElect(1)
    \/ \E a \in Agents : TxnElect(1, a, 1)

SpecFence == Init /\ [][NextFence]_vars

\* The leader table of a store in use: no row, the row of the first leader,
\* or the row after a takeover.
LeaderSeeds ==
    {{}, InsertLeader({}, 1, 0, MaxLease),
     TakeOver(InsertLeader({}, 1, 0, 1), 2, MaxClock - 1, MaxLease, 1)}

InitTerms ==
    /\ clock = MaxClock
    /\ leader \in LeaderSeeds
    /\ elect = [p \in Procs |-> IdleElect]
    /\ lastElect = NoElect
    /\ won = {}
    /\ tasks = <<>>
    /\ agents = [a \in Agents |-> NewAgent("active", 0, 0)]
    /\ proc = [p \in Workers |-> IdleProc]
    /\ winners = <<>>
    /\ RestInit

\* Database.claim_task, complete_task and fail_task called with any
\* arguments.
NextTerms ==
    \/ CreateTask(MaxPriority, <<>>)
    \/ \E t \in TaskIds, a \in Agents, term \in FenceTerms :
          CallClaimTask(t, a, term)
    \/ \E op \in {"complete", "fail"}, t \in TaskIds, a \in Agents :
          CallFinishTask(op, t, a)

SpecTerms == InitTerms /\ [][NextTerms]_vars

\* ------------------------------------------------ recovery and file locks
\* A store in use, with one task, in which an agent holds a file lock.
InitRecoveryLocks ==
    /\ clock = MaxClock
    /\ leader = {}
    /\ elect = [p \in Procs |-> IdleElect]
    /\ lastElect = NoElect
    /\ won = {}
    /\ tasks \in [1..1 -> SeedTasks]
    /\ agents \in [Agents -> SeedAgents]
    /\ \A a \in Agents :
          /\ agents[a].pid \in {0, a}
          /\ agents[a].current_task_id \in {0} \cup ClaimedBy(tasks, a)
    /\ proc = [p \in Workers |-> IdleProc]
    /\ winners = [t \in DOMAIN tasks |->
                    IF tasks[t].status = "pending" THEN <<>>
                    ELSE IF tasks[t].status = "claimed"
                            THEN <<tasks[t].claimed_by>> ELSE <<1>>]
    /\ ret = NoRet
    /\ events = {}
    /\ messages = <<>>
    /\ locks \in {{NewLock(1, a, 0)} : a \in Agents}
    /\ pids \in [Agents -> PidStates]
    /\ \A a \in Agents : agents[a].pid = 0 => pids[a] = "gone"
    /\ sweep = NoSweep

SpecRecoveryLocks == InitRecoveryLocks /\ [][NextRecovery]_vars

\* ------------------------------------------------------------------ leave
\* log_event with a task_id
TaskEvent(event_type, agent_id, task_id) ==
    [event_type |-> event_type, agent_id |-> agent_id, task_id |-> task_id]

\* cli leave of the agent whose id is stored, with or without --force:
\* get_agent; a missing agent changes nothing; an agent with a current task
\* is refused without --force; else abandon_task(current_task_id) if there
\* is one, then delete_agent.  ret keeps the call and the tables it found.
Leave(agent_id, force) ==
    /\ sweep.pc = "idle"
    /\ LET found == agent_id \in DOMAIN agents
           task_id == IF found THEN agents[agent_id].current_task_id ELSE 0
           refused == task_id # 0 /\ ~force
           left == found /\ ~refused
       IN /\ tasks' = IF left /\ task_id # 0 THEN AbandonUpdate(tasks, task_id)
                                             ELSE tasks
          /\ agents' = IF left THEN [a \in DOMAIN agents \ {agent_id} |-> agents[a]]
                               ELSE agents
          /\ events' = IF left
                          THEN events
                               \cup {TaskEvent("task_abandoned", 0, t) :
                                        t \in IF task_id # 0
                                                 THEN AbandonMatches(tasks, task_id)
                                                 ELSE {}}
                               \cup {Event("agent_left", agent_id)}
                          ELSE events
          /\ ret' = [op |-> "leave", agent_id |-> agent_id, force |-> force,
                     refused |-> refused,
                     before |-> [tasks |-> tasks, agents |-> agents]]
    /\ UNCHANGED <<clock, leaderVars, proc, winners, messages, locks, pids, sweep>>

\* Recovery calls and leaves, one at a time.
NextLeave ==
    \/ NextRecovery
    \/ \E a \in Agents, force \in BOOLEAN : Leave(a, force)

SpecLeave == InitRecoveryLocks /\ [][NextLeave]_vars

\* ------------------------------------------------------------------- join
\* The agents rows of this part keep the name column as well:
\* name TEXT NOT NULL UNIQUE.
Names == 1..NumNames
NamedAgent(name, pid, now) == [name |-> name] @@ NewAgent("active", pid, now)

\* get_agent_by_name: SELECT * FROM agents WHERE name = ?
GetAgentByName(tbl, name) == {a \in DOMAIN tbl : tbl[a].name = name}

\* INSERT INTO agents raises IntegrityError: a row has the name.
NameNeverTaken(tbl, name) == FALSE
NameTaken(tbl, name) == \E a \in DOMAIN tbl : tbl[a].name = name

JoinRet(name, ok, before) ==
    [op |-> "join", name |-> name, ok |-> ok, before |-> before]

\* cli join from a terminal that has not joined yet, up to the uniqueness
\* check: a taken name ends the command with an error.
JoinCheck(p, name) ==
    /\ elect[p].pc = "idle"
    /\ IF GetAgentByName(agents, name) # {}
          THEN /\ ret' = JoinRet(name, FALSE, agents)
               /\ UNCHANGED elect
          ELSE /\ elect' = [elect EXCEPT ![p] =
                              [pc |-> "insert", now |-> 0, onEmpty |-> FALSE,
                               name |-> name]]
               /\ UNCHANGED ret
    /\ UNCHANGED <<clock, leader, lastElect, won, taskVars,
                   events, messages, locks, pids, sweep>>

\* db.create_agent(agent) with a fresh id: the INSERT raises IntegrityError
\* on a taken name and the command ends; else the row is there,
\* agent_joined is logged and try_become_leader starts (it reads the clock).
JoinInsert(p) ==
    /\ elect[p].pc = "insert"
    /\ LET name == elect[p].name IN
       IF NameTaken(agents, name)
          THEN /\ ret' = JoinRet(name, FALSE, agents)
               /\ elect' = [elect EXCEPT ![p] = IdleElect]
               /\ UNCHANGED <<agents, events>>
          ELSE \E id \in Agents \ DOMAIN agents :
                  /\ agents' = [a \in DOMAIN agents \cup {id} |->
                                   IF a = id THEN NamedAgent(name, p, clock)
                                             ELSE agents[a]]
                  /\ events' = events \cup {Event("agent_joined", id)}
                  /\ ret' = JoinRet(name, TRUE, agents)
                  /\ elect' = [elect EXCEPT ![p] =
                                 [pc |-> "txn", now |-> clock,
                                  onEmpty |-> (leader = {}), agent_id |-> id]]
    /\ UNCHANGED <<clock, leader, lastElect, won, tasks, proc, winners,
                   messages, locks, pids, sweep>>

\* is_leader, term = db.try_become_leader(agent.id)
JoinElect(p) ==
    /\ elect[p].pc = "txn"
    /\ TxnElect(p, elect[p].agent_id, MaxLease)

\* A store without agents.
InitJoin ==
    /\ clock = 0
    /\ leader = {}
    /\ elect = [p \in Procs |-> IdleElect]
    /\ lastElect = NoElect
    /\ won = {}
    /\ tasks = <<>>
    /\ agents = <<>>
    /\ proc = [p \in Workers |-> IdleProc]
    /\ winners = <<>>
    /\ RestInit

\* Terminals joining concurrently, and agents being deleted, all within one
\* tick of the clock.
NextJoin ==
    \/ \E p \in Procs, name \in Names : JoinCheck(p, name)
    \/ \E p \in Procs : JoinInsert(p)
    \/ \E p \in Procs : JoinElect(p)
    \/ \E a \in Agents : DeleteAgent(a)

SpecJoin == InitJoin /\ [][NextJoin]_vars

\* ------------------------------------------------- failures in a sweep
\* A statement of the loop body of recover_dead_agents or
\* recover_stale_tasks raises (sqlite3.OperationalError on a store that
\* stays busy, TypeError on a row whose timestamp does not compare) while
\* the first of the remaining rows is processed.  Neither loop, nor
\* run_recovery, has a try: the exception leaves the call, nothing is
\* logged, and the remaining rows are not processed.
SweepRaises ==
    /\ sweep.pc \in {"dead", "stale"} /\ sweep.rows # <<>>
    /\ ret' = [op |-> sweep.op, raised |-> TRUE, at |-> Head(sweep.rows).id,
               unprocessed |-> Len(sweep.rows) - 1]
    /\ sweep' = NoSweep
    /\ UNCHANGED <<clock, leaderVars, taskVars, events, messages, locks, pids>>

NextRecoveryFaults ==
    \/ NextRecovery
    \/ SweepRaises

SpecRecoveryFaults == InitRecoveryLocks /\ [][NextRecoveryFaults]_vars

\* -------------------------------------------------------------------- kill
\* cli kill NAME / kill --all: the active agents, those named NAME unless
\* --all (an agent's name is its id here: names are unique).
KillTargets(name, kill_all) ==
    {a \in DOMAIN agents :
        agents[a].status = "active" /\ (kill_all \/ a = name)}

\* The pids that get os.kill(agent.pid, SIGTERM):
\* agent.pid and process_exists(agent.pid)
Signalled(targets) ==
    {agents[a].pid : a \in {x \in targets : TakenAlive(agents[x])}}

\* cli kill: per target, SIGTERM to its process if it has one (the process
\* ends or handles the signal), update_agent_status(DEAD), and
\* abandon_task(current_task_id) if the fetched row has one, which logs
\* task_abandoned when its UPDATE matched.  Nothing else is logged.
Kill(name, kill_all) ==
    /\ sweep.pc = "idle"
    /\ LET targets == KillTargets(name, kill_all)
           held == {agents[a].current_task_id : a \in targets} \ {0}
       IN /\ \E ended \in SUBSET Signalled(targets) :
                pids' = [p \in DOMAIN pids |->
                           IF p \in ended THEN "gone" ELSE pids[p]]
          /\ agents' = [a \in DOMAIN agents |->
                          IF a \in targets
                             THEN [agents[a] EXCEPT !.status = "dead"]
                             ELSE agents[a]]
          /\ tasks' = AbandonAll(tasks, held)
          /\ events' = events
                       \cup {TaskEvent("task_abandoned", 0, t) :
                               t \in {h \in held : AbandonMatches(tasks, h) # {}}}
          /\ ret' = [op |-> "kill", name |-> name, kill_all |-> kill_all,
                     targets |-> targets, before |-> agents]
    /\ UNCHANGED <<clock, leaderVars, proc, winners, messages, locks, sweep>>

\* Kills and leaves, one at a time, on a seeded store.
NextKill ==
    \/ \E a \in Agents, kill_all \in BOOLEAN : Kill(a, kill_all)
    \/ \E a \in Agents, force \in BOOLEAN : Leave(a, force)

SpecKill == InitRecoveryLocks /\ [][NextKill]_vars

\* ------------------------------------------------------------- stuck work
\* The agents make no progress: nothing touches the store but run_recovery,
\* invoked again and again while the clock advances, to one timeout past
\* the clock of the seeded store.
LastClock == MaxClock + ClaimTimeout

TickOn ==
    /\ clock < LastClock
    /\ clock' = clock + 1
    /\ UNCHANGED <<restVars, leaderVars, taskVars>>

\* One statement of a run_recovery call, or the start of the next call.
RunRecovery ==
    \/ StartSweep("run_recovery")
    \/ RecoverDeadStep
    \/ DeadAgentsDone
    \/ RecoverStaleStep
    \/ StaleTasksDone
    \/ SweepRequeue

NextStuck ==
    \/ TickOn
    \/ RunRecovery

\* Time advances, and the process that invokes run_recovery keeps running.
SpecStuck ==
    InitRecoveryLocks /\ [][NextStuck]_vars
       /\ WF_vars(TickOn) /\ WF_vars(RunRecovery)

\* ------------------------------------------- stale claims, concurrently
\* One recover_stale_tasks call is followed statement by statement, while
\* other processes (another sweep's abandon_task, a re-queue, a claim) reach
\* the store between its statements.
NextStaleRace ==
    \/ StartSweep("recover_stale_tasks")
    \/ RecoverStaleStep
    \/ StaleTasksDone
    \/ \E t \in TaskIds : DbAbandonTask(t)
    \/ DbRequeue
    \/ \E t \in TaskIds, a \in Agents : DbClaimTask(t, a, 0)

SpecStaleRace == InitRecoveryLocks /\ [][NextStaleRace]_vars

\* ------------------------------------------- dead agents, concurrently
\* recover_dead_agents followed statement by statement.  A turn of its loop
\* decides on the fetched agent row; for a dead agent it enters
\* _recover_agent with update_agent_status(agent.id, DEAD).
RecoverDeadTurn ==
    /\ sweep.pc = "dead" /\ sweep.rows # <<>>
    /\ LET id == Head(sweep.rows).id
           row == Head(sweep.rows).row
           rest == [sweep EXCEPT !.rows = Tail(sweep.rows)]
       IN IF ~StaleHeartbeat(row, sweep.now)
             THEN /\ sweep' = rest
                  /\ UNCHANGED <<agents, events>>
             ELSE IF TakenAlive(row)
                     THEN /\ events' = events \cup {Event("agent_unresponsive", id)}
                          /\ sweep' = rest
                          /\ UNCHANGED agents
                     ELSE /\ agents' = UpdateAgentStatus(agents, id, "dead")
                          /\ sweep' = [pc |-> "fetch", agent |-> id, sweep |-> rest]
                          /\ UNCHANGED events
    /\ UNCHANGED <<clock, leaderVars, tasks, proc, winners,
                   ret, messages, locks, pids>>

\* _recover_agent: tasks = get_all_tasks(status = CLAIMED, claimed_by = agent.id)
RecoverAgentFetch ==
    /\ sweep.pc = "fetch"
    /\ sweep' = [pc |-> "abandon", agent |-> sweep.agent, sweep |-> sweep.sweep,
                 tasks |-> RowsFrom(tasks, ClaimedBy(tasks, sweep.agent), 1)]
    /\ UNCHANGED <<clock, leaderVars, taskVars, ret, events, messages, locks, pids>>

\* _recover_agent: for task in tasks: abandon_task(task.id)
RecoverAgentAbandon ==
    /\ sweep.pc = "abandon" /\ sweep.tasks # <<>>
    /\ tasks' = AbandonUpdate(tasks, Head(sweep.tasks).id)
    /\ sweep' = [sweep EXCEPT !.tasks = Tail(sweep.tasks)]
    /\ UNCHANGED <<clock, leaderVars, agents, proc, winners,
                   ret, events, messages, locks, pids>>

\* _recover_agent: log_event("agent_died"); recovered.append(agent.id)
RecoverAgentLog ==
    /\ sweep.pc = "abandon" /\ sweep.tasks = <<>>
    /\ events' = events \cup {Event("agent_died", sweep.agent)}
    /\ sweep' = [sweep.sweep EXCEPT !.dead = Append(@, sweep.agent)]
    /\ UNCHANGED <<clock, leaderVars, taskVars, ret, messages, locks, pids>>

\* One recover_dead_agents call in flight, while other processes abandon,
\* re-queue and claim.
NextDeadRace ==
    \/ StartSweep("recover_dead_agents")
    \/ RecoverDeadTurn
    \/ RecoverAgentFetch
    \/ RecoverAgentAbandon
    \/ RecoverAgentLog
    \/ DeadAgentsDone
    \/ \E t \in TaskIds : DbAbandonTask(t)
    \/ DbRequeue
    \/ \E t \in TaskIds, a \in Agents : DbClaimTask(t, a, 0)

SpecDeadRace == InitRecoveryLocks /\ [][NextDeadRace]_vars

\* ------------------------------------------- the timeout and the claimant
\* update_task_progress: UPDATE tasks SET context = ?, updated_at = ?
\* WHERE id = ?.  Both columns are payload here: the columns kept of the
\* row, claimed_at among them, are not written.  return cursor.rowcount == 1
UpdateTaskProgress(task_id) ==
    /\ UNCHANGED tasks
    /\ ret' = [op |-> "update_task_progress", task_id |-> task_id,
               ok |-> task_id \in DOMAIN tasks, now |-> clock]
    /\ UNCHANGED <<clock, leaderVars, agents, proc, winners,
                   events, messages, locks, pids, sweep>>

\* recover_stale_tasks calls, while the agents heartbeat and report
\* progress on their tasks.
NextTimeout ==
    \/ StartSweep("recover_stale_tasks")
    \/ RecoverStaleStep
    \/ StaleTasksDone
    \/ \E a \in Agents : Heartbeat(a)
    \/ \E t \in TaskIds : UpdateTaskProgress(t)

SpecTimeout == InitRecoveryLocks /\ [][NextTimeout]_vars

\* ------------------------------------------------------ the claim command
\* cli claim [TASK_ID] of the agent whose id is stored (task_id = 0: no
\* TASK_ID): get_agent (a missing agent ends the command), update_heartbeat,
\* and the check "already has a task": the task named by the fetched
\* current_task_id exists and is claimed.  Then the command returns that
\* task, or else enters claim_specific_task / claim_next_task, which read
\* the current term.
ClaimCommand(p, agent_id, task_id) ==
    /\ proc[p].pc = "idle"
    /\ agent_id \in DOMAIN agents
    /\ agents' = UpdateHeartbeat(agents, agent_id, clock)
    /\ LET cur == agents[agent_id].current_task_id
           already == cur # 0 /\ cur \in DOMAIN tasks
                             /\ tasks[cur].status = "claimed"
       IN IF already
             THEN /\ ret' = [op |-> "claim_command", agent_id |-> agent_id,
                             task_id |-> cur, already |-> TRUE]
                  /\ UNCHANGED proc
             ELSE /\ proc' = [proc EXCEPT ![p] =
                                IF task_id = 0
                                   THEN [IdleProc EXCEPT !.pc = "select",
                                                         !.op = "next",
                                                         !.agent_id = agent_id,
                                                         !.term = CurrentTerm]
                                   ELSE [IdleProc EXCEPT !.pc = "claim",
                                                         !.op = "specific",
                                                         !.agent_id = agent_id,
                                                         !.term = CurrentTerm,
                                                         !.task_id = task_id]]
                  /\ UNCHANGED ret
    /\ UNCHANGED <<clock, leaderVars, tasks, winners,
                   events, messages, locks, pids, sweep>>

\* The claim command of any agent, statement by statement, and
\* recover_dead_agents calls, on a seeded store (its tasks have no
\* dependencies, so get_next_pending_task returns its first row).
NextDeadClaim ==
    \/ \E p \in Workers, a \in Agents, t \in {0} \cup TaskIds :
          ClaimCommand(p, a, t)
    \/ \E p \in Workers : SelectPending(p)
    \/ \E p \in Workers : ClaimTask(p)
    \/ \E p \in Workers : SetAgentTask(p)
    \/ StartSweep("recover_dead_agents")
    \/ RecoverDeadStep
    \/ DeadAgentsDone

SpecDeadClaim == InitRecoveryLocks /\ [][NextDeadClaim]_vars

\* ------------------------------------------------------ claims and leaves
\* Tasks without dependencies are created; agents claim through the claim
\* command or through claim_specific_task, one call in flight, statement by
\* statement; and agents leave, with or without --force.
NextLeaveClaims ==
    \/ CreateTask(MaxPriority, <<>>)
    \/ \E p \in Workers, a \in Agents, t \in {0} \cup TaskIds :
          ClaimCommand(p, a, t)
    \/ \E p \in Workers, a \in Agents, t \in TaskIds : StartClaimSpecific(p, a, t)
    \/ \E p \in Workers : SelectPending(p)
    \/ \E p \in Workers : ClaimTask(p)
    \/ \E p \in Workers : SetAgentTask(p)
    \/ \E a \in Agents, force \in BOOLEAN : Leave(a, force)

SpecLeaveClaims == Init /\ [][NextLeaveClaims]_vars

\* ------------------------------------------------ claims: leader election

\* The last call that returned, the row it found and the row it left.
Called == lastElect.agent_id # 0
FoundRow == lastElect.before # {}
Found == CHOOSE r \in lastElect.before : TRUE
Stored == CHOOSE r \in leader : TRUE
\* The call was a renewal: the caller held a lease valid at the call's clock.
IsRenewal == FoundRow /\ Found.agent_id = lastElect.agent_id
                      /\ Found.lease_expires_at > lastElect.now
\* The call found a lease valid at the call's clock, held by another agent.
IsHeldByOther == FoundRow /\ Found.agent_id # lastElect.agent_id
                          /\ Found.lease_expires_at > lastElect.now
\* The call found a lease expired at the call's clock.
IsExpired == FoundRow /\ Found.lease_expires_at <= lastElect.now

\* C2: the leader table never holds more than one row; the stored term never
\* decreases; every successful election that is not a renewal returns a term
\* greater than every term returned before; and no term is returned as won
\* by two different agents.
C2_LeaderUniqueTermMonotonic ==
    /\ Cardinality(leader) <= 1
    /\ \A b \in lastElect.before : \A r \in leader : r.term >= b.term
    /\ (Called /\ lastElect.ok /\ ~IsRenewal) => lastElect.term > lastElect.maxBefore
    /\ \A w1, w2 \in won : w1.term = w2.term => w1.agent_id = w2.agent_id

\* Two different agents have each won a term, the later one by a takeover.
C2_Witness ==
    /\ Called /\ lastElect.ok /\ IsExpired /\ lastElect.term = 2
    /\ \E w \in won : w.agent_id # lastElect.agent_id /\ w.term = 1

\* C3: while the stored lease is unexpired, a call by any agent other than
\* the holder returns (False, 0) and leaves the leader row unchanged; the
\* row's agent_id changes only when the lease is expired.
C3_ExclusiveLease ==
    /\ (Called /\ IsHeldByOther) =>
          (~lastElect.ok /\ lastElect.term = 0 /\ leader = lastElect.before)
    /\ (Called /\ FoundRow /\ Stored.agent_id # Found.agent_id) =>
          Found.lease_expires_at <= lastElect.now

\* A challenger was turned away by an unexpired lease.
C3_Witness ==
    Called /\ IsHeldByOther /\ ~lastElect.ok /\ leader = lastElect.before

\* C4: a call made once the stored lease has expired (at the call's clock)
\* returns (True, previous term + 1) and stores the caller with the new
\* term and a new lease; a call by another agent, such as the displaced
\* leader, while the new lease is valid returns (False, 0).
C4_TakeoverAfterExpiry ==
    /\ (Called /\ IsExpired) =>
          /\ lastElect.ok
          /\ lastElect.term = Found.term + 1
          /\ leader = {[id |-> 1, agent_id |-> lastElect.agent_id,
                        term |-> Found.term + 1,
                        lease_expires_at |-> lastElect.now + lastElect.lease_seconds,
                        elected_at |-> lastElect.now]}
    /\ (Called /\ IsHeldByOther /\ Found.term > 1) =>
          (~lastElect.ok /\ lastElect.term = 0)

\* The displaced leader of term 1 calls while the lease of term 2 is valid.
C4_Witness ==
    /\ Called /\ IsHeldByOther /\ Found.term = 2 /\ ~lastElect.ok
    /\ [agent_id |-> lastElect.agent_id, term |-> 1] \in won
    /\ [agent_id |-> Found.agent_id, term |-> 2] \in won

\* C5 as stated: a renewal returns (True, same term), leaves agent_id, term
\* and elected_at unchanged, and the stored lease_expires_at is later after
\* the call than before it, whatever lease length is passed.
C5_RenewalExtendsLease ==
    (Called /\ IsRenewal) =>
        /\ lastElect.ok /\ lastElect.term = Found.term
        /\ Stored.agent_id = Found.agent_id /\ Stored.term = Found.term
        /\ Stored.elected_at = Found.elected_at
        /\ Stored.lease_expires_at > Found.lease_expires_at

\* C5 amended: a renewal returns (True, same term), leaves agent_id, term
\* and elected_at unchanged, and sets lease_expires_at to the call's clock
\* plus the lease length passed (which may be earlier than before).
C5_RenewalPreservesTerm ==
    (Called /\ IsRenewal) =>
        /\ lastElect.ok /\ lastElect.term = Found.term
        /\ Cardinality(leader) = 1
        /\ Stored.agent_id = Found.agent_id /\ Stored.term = Found.term
        /\ Stored.elected_at = Found.elected_at
        /\ Stored.lease_expires_at = lastElect.now + lastElect.lease_seconds

\* A renewal that moved the expiry to a later time.
C5_Witness ==
    /\ Called /\ IsRenewal /\ lastElect.ok
    /\ Stored.lease_expires_at > Found.lease_expires_at

DepsDone(t) ==
    \A i \in 1..Len(tasks[t].depends_on) :
        /\ tasks[t].depends_on[i] \in DOMAIN tasks
        /\ tasks[tasks[t].depends_on[i]].status = "done"

\* The claim_next_task calls that have selected, or claimed, a task.
Selected == {p \in Workers : proc[p].op = "next" /\ proc[p].pc \in {"claim", "setptr"}}

\* C1 (unique claim): in each period in which a task is pending at most one
\* claim attempt, from any entry point, returns success; the successful
\* attempt finds the task pending and leaves the row with status claimed,
\* claimed_by the successful caller and claimed_at set, and the row stays
\* that caller's for as long as it is claimed.
C1_UniqueClaim ==
    /\ [](\A t \in DOMAIN tasks :
            /\ Len(winners[t]) <= 1
            /\ tasks[t].status = "claimed" =>
                  /\ winners[t] = <<tasks[t].claimed_by>>
                  /\ tasks[t].claimed_at # -1)
    /\ [][\A t \in DOMAIN tasks :
            winners'[t] # winners[t] /\ winners'[t] # <<>> =>
               /\ tasks[t].status = "pending"
               /\ tasks'[t].status = "claimed"
               /\ tasks'[t].claimed_by = winners'[t][Len(winners'[t])]
               /\ tasks'[t].claimed_by \in Agents
               /\ tasks'[t].claimed_at = clock]_vars

\* A claim_next_task call is about to attempt a task that, in a later pending
\* period of the task, another caller has claimed since the selection.
C1_Witness ==
    \E p \in Workers :
        /\ proc[p].pc = "claim"
        /\ proc[p].op = "next"
        /\ tasks[proc[p].task_id].status = "claimed"
        /\ tasks[proc[p].task_id].claimed_by # proc[p].agent_id
        /\ tasks[proc[p].task_id].retry_count >= 1

\* C7 (state-machine closure): every change of a task's status follows one of
\* the edges pending->claimed, claimed->done, claimed->failed,
\* claimed->abandoned, abandoned->pending; nothing leaves done or failed.
C7_StatusEdges ==
    [][\A t \in DOMAIN tasks :
          tasks'[t].status # tasks[t].status =>
             <<tasks[t].status, tasks'[t].status>> \in
                {<<"pending", "claimed">>, <<"claimed", "done">>,
                 <<"claimed", "failed">>, <<"claimed", "abandoned">>,
                 <<"abandoned", "pending">>}]_vars

\* One task went through abandon, re-queue and a second claim and then
\* failed, while another was completed.
C7_Witness ==
    \E t, u \in DOMAIN tasks :
        /\ tasks[t].status = "failed" /\ tasks[t].retry_count = 2
        /\ tasks[u].status = "done"

\* C8 (dependency gating): a task that claim_next_task has selected, claimed
\* or is returning has every dependency existing and done, whatever other
\* callers did to the tasks in between.
C8_DependencyGating ==
    \A p \in Selected : DepsDone(proc[p].task_id)

\* claim_next_task has claimed a task and passed over a pending task of
\* higher priority whose dependency is not done.
C8_Witness ==
    \E p \in Selected, u \in DOMAIN tasks :
        /\ proc[p].pc = "setptr"
        /\ tasks[u].status = "pending"
        /\ tasks[u].priority > tasks[proc[p].task_id].priority
        /\ ~DepsDone(u)

\* C9 (claimable only when dependencies are done): every pending->claimed
\* transition, through any claim entry point, happens only when every task
\* in depends_on is done.
C9_ClaimOnlyWhenDepsDone ==
    [][\A t \in DOMAIN tasks :
          tasks[t].status = "pending" /\ tasks'[t].status = "claimed"
             => DepsDone(t)]_vars

\* Task t can be claimed by claim_next_task: pending, every dependency done.
Claimable(t) == tasks[t].status = "pending" /\ DepsDone(t)

\* No claimable task has a higher priority than t, or t's priority and an
\* earlier created_at.
Best(t) ==
    \A u \in DOMAIN tasks :
        Claimable(u) =>
           \/ tasks[u].priority < tasks[t].priority
           \/ /\ tasks[u].priority = tasks[t].priority
              /\ tasks[t].created_at <= tasks[u].created_at

\* C10 (priority ordering): with one claim_next_task call at a time and no
\* other operation, the task a call claims is claimable and has the highest
\* priority among the claimable tasks and, among those of that priority, the
\* earliest created_at; a call ends without a claim only when no task is
\* claimable.
C10_PriorityOrdering ==
    [][/\ \A t \in DOMAIN tasks :
             tasks[t].status = "pending" /\ tasks'[t].status = "claimed"
                => Claimable(t) /\ Best(t)
       /\ \A p \in Workers :
             proc[p].pc \in {"select", "dep", "claim"} /\ proc'[p].pc = "idle"
                => \A t \in DOMAIN tasks : ~Claimable(t)]_vars

\* A call has claimed a task while a later task of the same priority was
\* claimable and a pending task of higher priority was blocked.
C10_Witness ==
    \E p \in Selected, u, v \in DOMAIN tasks :
        /\ proc[p].pc = "setptr"
        /\ tasks[proc[p].task_id].status = "claimed"
        /\ Claimable(u)
        /\ tasks[u].priority = tasks[proc[p].task_id].priority
        /\ tasks[u].created_at > tasks[proc[p].task_id].created_at
        /\ tasks[v].status = "pending" /\ ~DepsDone(v)
        /\ tasks[v].priority > tasks[proc[p].task_id].priority

\* ---------------------------------------------- claims: finishing a task

\* The complete_task / fail_task call that has just returned found its task
\* claimed by the calling agent.
HeldByCaller ==
    /\ ret'.task_id \in DOMAIN ret'.before
    /\ ret'.before[ret'.task_id].status = "claimed"
    /\ ret'.before[ret'.task_id].claimed_by = ret'.agent_id

\* C11 (only the claimant finishes): complete_task and fail_task return True
\* exactly when the task is claimed by the calling agent; then the row, and
\* only it, becomes done with result and completed_at set, or failed with
\* error set and retry_count one higher; otherwise the table is unchanged.
C11_OnlyClaimantFinishes ==
    [][(ret' # ret /\ ret'.op \in {"complete", "fail"}) =>
          /\ ret'.before = tasks
          /\ ret'.ok <=> HeldByCaller
          /\ ~ret'.ok => tasks' = tasks
          /\ (ret'.ok /\ ret'.op = "complete") =>
                tasks' = [tasks EXCEPT ![ret'.task_id] =
                            [@ EXCEPT !.status = "done", !.result = "result",
                                      !.completed_at = clock]]
          /\ (ret'.ok /\ ret'.op = "fail") =>
                tasks' = [tasks EXCEPT ![ret'.task_id] =
                            [@ EXCEPT !.status = "failed", !.error = "error",
                                      !.retry_count = @ + 1]]]_vars

\* An agent was refused: the task it tried to complete had been abandoned,
\* re-queued and claimed by another agent.
C11_Witness ==
    /\ ret.op = "complete" /\ ~ret.ok
    /\ ret.task_id \in DOMAIN tasks
    /\ tasks = ret.before
    /\ tasks[ret.task_id].status = "claimed"
    /\ tasks[ret.task_id].claimed_by # ret.agent_id
    /\ tasks[ret.task_id].retry_count >= 1

\* C13 as stated: a task has claimed_by set if and only if its status is
\* claimed; pending, done, failed and abandoned tasks have claimed_by empty.
C13_Ownership ==
    \A t \in DOMAIN tasks :
        (tasks[t].claimed_by # 0) <=> (tasks[t].status = "claimed")

\* C13 amended: a claimed task has claimed_by set, a pending or abandoned task
\* has claimed_by empty, and a done or failed task keeps the claimed_by of the
\* agent that finished it.
C13_OwnershipUntilFinished ==
    \A t \in DOMAIN tasks :
        /\ tasks[t].status \in {"claimed", "done", "failed"}
              => tasks[t].claimed_by # 0
        /\ tasks[t].status \in {"pending", "abandoned"}
              => tasks[t].claimed_by = 0

\* One task was completed by its claimant and another was abandoned.
C13_Witness ==
    /\ \E t \in DOMAIN tasks :
          tasks[t].status = "done" /\ tasks[t].claimed_by # 0
    /\ \E t \in DOMAIN tasks :
          /\ tasks[t].status = "abandoned"
          /\ tasks[t].claimed_by = 0 /\ tasks[t].retry_count = 1

\* What a re-queue returning count leaves: no task abandoned under its cap,
\* the tasks abandoned at or over their cap as they were, and count tasks
\* moved to pending.
RequeuedUnderCap(count) ==
    /\ DOMAIN tasks' = DOMAIN tasks
    /\ \A t \in DOMAIN tasks' :
          ~(/\ tasks'[t].status = "abandoned"
            /\ tasks'[t].retry_count < tasks'[t].max_retries)
    /\ \A t \in DOMAIN tasks :
          (/\ tasks[t].status = "abandoned"
           /\ tasks[t].retry_count >= tasks[t].max_retries)
             => tasks'[t] = tasks[t]
    /\ count = Cardinality({t \in DOMAIN tasks :
                               /\ tasks[t].status # "pending"
                               /\ tasks'[t].status = "pending"})

\* C17 (re-queue under cap): after requeue_abandoned_tasks, and after the
\* re-queue that ends run_recovery, no task is abandoned with
\* retry_count < max_retries, every task that was abandoned with
\* retry_count >= max_retries is still abandoned, and the returned count is
\* the number of tasks moved to pending.
C17_RequeueUnderCap ==
    /\ [][(ret' # ret /\ ret'.op = "requeue") => RequeuedUnderCap(ret'.n)]_vars
    /\ [][(sweep.pc = "requeue" /\ sweep' # sweep)
             => RequeuedUnderCap(ret'.requeued_tasks)]_vars

\* A re-queue has moved one task to pending and left another, abandoned
\* max_retries times, abandoned.
C17_Witness ==
    /\ ret.op = "requeue" /\ ret.n = 1
    /\ DOMAIN ret.before = DOMAIN tasks
    /\ \E t \in DOMAIN tasks :
          /\ ret.before[t].status = "abandoned"
          /\ tasks[t].status = "pending" /\ tasks[t].retry_count >= 1
    /\ \E t \in DOMAIN tasks :
          /\ ret.before[t].status = "abandoned"
          /\ tasks[t].status = "abandoned"
          /\ tasks[t].retry_count = tasks[t].max_retries

\* ------------------------------------------------ claims: crash recovery

\* recover_dead_agents is about to take the next fetched agent.
AtAgent == sweep.pc = "dead" /\ sweep.rows # <<>>
TheAgent == Head(sweep.rows).id
TheRow == Head(sweep.rows).row
\* The fetched agent's heartbeat is older than dead_threshold.
HeartbeatOld(row, now) == now - row.last_heartbeat_at > DeadThreshold
\* A process with the recorded pid exists.
PidAlive(row) == row.pid # 0 /\ pids[row.pid] # "gone"
\* The turn of the loop marked the agent dead.
MarkedDead ==
    /\ sweep'.dead = Append(sweep.dead, TheAgent)
    /\ agents' = UpdateAgentStatus(agents, TheAgent, "dead")

\* C14 (liveness safety): for a fetched active agent whose heartbeat is older
\* than dead_threshold and whose pid is alive, recover_dead_agents logs
\* agent_unresponsive, does not mark it dead, does not list it, and leaves
\* its tasks as they are.
C14_UnresponsiveNotDead ==
    [][(AtAgent /\ TheRow.status = "active"
               /\ HeartbeatOld(TheRow, sweep.now) /\ PidAlive(TheRow)) =>
          /\ Event("agent_unresponsive", TheAgent) \in events'
          /\ agents' = agents
          /\ tasks' = tasks
          /\ sweep'.dead = sweep.dead]_vars

\* C15 (liveness rule): recover_dead_agents marks a fetched agent dead if and
\* only if it is active, its heartbeat is older than dead_threshold and its
\* pid is not alive (no pid counting as not alive).
C15_DeadIffStaleAndGone ==
    [][AtAgent =>
          (MarkedDead <=> /\ TheRow.status = "active"
                          /\ HeartbeatOld(TheRow, sweep.now)
                          /\ ~PidAlive(TheRow))]_vars

\* run_recovery is about to return; Before is the store it found.
AtReturn == sweep.pc = "requeue" /\ sweep.op = "run_recovery"
Before == sweep.before
\* The agents deemed dead when the call started: active, heartbeat older
\* than dead_threshold, no live process.
DeemedDead ==
    {a \in DOMAIN Before.agents :
        /\ Before.agents[a].status = "active"
        /\ HeartbeatOld(Before.agents[a], sweep.now)
        /\ ~(Before.agents[a].pid # 0 /\ Before.pids[Before.agents[a].pid] # "gone")}
\* The tasks agent a held when the call started.
HeldBy(a) ==
    {t \in DOMAIN Before.tasks : Before.tasks[t].status = "claimed"
                                 /\ Before.tasks[t].claimed_by = a}
\* The tasks the call moves back to pending.
MovedToPending ==
    {t \in DOMAIN tasks : Before.tasks[t].status # "pending"
                          /\ tasks'[t].status = "pending"}
\* The claimed tasks older than claim_timeout that no agent listed as dead
\* held.
StaleOfOthers ==
    {t \in DOMAIN tasks :
        /\ Before.tasks[t].status = "claimed"
        /\ sweep.now - Before.tasks[t].claimed_at > ClaimTimeout
        /\ \A i \in 1..Len(ret'.dead_agents) :
              Before.tasks[t].claimed_by # ret'.dead_agents[i]}
\* What run_recovery does for dead agent a whose tasks, those with
\* retry_count + margin under max_retries, are to come back.
RecoveredFully(a, margin) ==
    /\ agents'[a].status = "dead"
    /\ \E i \in 1..Len(ret'.dead_agents) : ret'.dead_agents[i] = a
    /\ \A t \in HeldBy(a) :
          Before.tasks[t].retry_count + margin < Before.tasks[t].max_retries =>
             /\ tasks'[t].status = "pending"
             /\ tasks'[t].retry_count = Before.tasks[t].retry_count + 1
    /\ ret'.stale_tasks = Cardinality(StaleOfOthers)
    /\ ret'.requeued_tasks = Cardinality(MovedToPending)

\* C16 as stated: run_recovery marks every agent deemed dead as dead, lists
\* it, leaves each of its claimed tasks that had retry_count < max_retries
\* pending with retry_count one higher, counts none of them as stale and
\* reports the number of tasks moved to pending.
C16_CrashRecovery ==
    [][AtReturn => \A a \in DeemedDead : RecoveredFully(a, 0)]_vars

\* C16 amended: the same for the claimed tasks that had
\* retry_count + 1 < max_retries; a task one abandonment short of
\* max_retries stays abandoned.
C16_CrashRecoveryUnderCap ==
    [][AtReturn =>
          /\ \A a \in DeemedDead : RecoveredFully(a, 1)
          /\ \A a \in DeemedDead : \A t \in HeldBy(a) :
                Before.tasks[t].retry_count + 1 >= Before.tasks[t].max_retries
                   => tasks'[t].status = "abandoned"]_vars

\* run_recovery has returned one dead agent, no stale task and one re-queued
\* task, which is pending after its first abandonment.
C16_Witness ==
    /\ sweep.pc = "idle" /\ ret.op = "run_recovery"
    /\ Len(ret.dead_agents) = 1 /\ ret.stale_tasks = 0 /\ ret.requeued_tasks = 1
    /\ agents[ret.dead_agents[1]].status = "dead"
    /\ \E t \in DOMAIN tasks : tasks[t].status = "pending" /\ tasks[t].retry_count = 1

\* C12: every agent whose current_task_id is set references a task whose
\* status is claimed and whose claimed_by is that agent.
C12_AgentPointer ==
    \A a \in DOMAIN agents :
        agents[a].current_task_id # 0 =>
            /\ agents[a].current_task_id \in DOMAIN tasks
            /\ tasks[agents[a].current_task_id].status = "claimed"
            /\ tasks[agents[a].current_task_id].claimed_by = a

\* ------------------------------------------------------ claims: heartbeat
HeartbeatCalled == ret' # ret /\ ret'.op = "update_heartbeat"

\* C18 (heartbeat frame): update_heartbeat changes only last_heartbeat_at of
\* the agent's row: no other column of the row, no other agent row, no task,
\* leader, message, lock or event row, and it creates no row when the agent
\* does not exist.
C18_HeartbeatFrame ==
    [][HeartbeatCalled =>
          /\ DOMAIN agents' = DOMAIN agents
          /\ \A a \in DOMAIN agents :
                IF a = ret'.agent_id
                   THEN agents'[a] =
                           [agents[a] EXCEPT !.last_heartbeat_at =
                                                agents'[a].last_heartbeat_at]
                   ELSE agents'[a] = agents[a]
          /\ UNCHANGED <<tasks, leader, messages, locks, events>>]_vars

\* A dead agent has sent a second heartbeat, later than its first, while
\* another agent has no row.
C18_Witness ==
    /\ ret.op = "update_heartbeat"
    /\ ret.agent_id \in DOMAIN ret.before /\ ret.agent_id \in DOMAIN agents
    /\ agents[ret.agent_id].status = "dead"
    /\ ret.before[ret.agent_id].last_heartbeat_at > 0
    /\ agents[ret.agent_id].last_heartbeat_at
          > ret.before[ret.agent_id].last_heartbeat_at
    /\ \E b \in Agents : b \notin DOMAIN agents

\* ------------------------------------------------------- claims: messages
\* C19 (broadcast read markers are per recipient): an inbox call of an agent
\* for its unread messages returns every broadcast message that another
\* agent has fetched and marked read and that the agent itself has not
\* fetched before.
C19_BroadcastReadPerRecipient ==
    (ret.op = "inbox" /\ ret.unread) =>
        \A i \in DOMAIN ret.before :
            (/\ ret.before[i].to_agent = 0
             /\ ret.before[i].read_at # -1
             /\ \E b \in Agents \ {ret.agent_id} : <<i, b>> \in ret.fetched)
               => <<i, ret.agent_id>> \in ret.fetched

\* ----------------------------------------------------- claims: file locks
\* Lock rows of one path.
Holders(tbl, file_path) == {r \in tbl : r.file_path = file_path}
LockCalled == ret' # ret /\ ret'.op = "lock_file"
UnlockCalled == ret' # ret /\ ret'.op = "unlock_file"
HeldByUnlocker ==
    \E r \in locks : r.file_path = ret'.file_path /\ r.agent_id = ret'.agent_id

\* C20 (file-lock exclusivity): each path has at most one lock holder;
\* lock_file on a locked path returns False and leaves the holder unchanged,
\* and on a free path returns True; unlock_file removes the lock and returns
\* True when the caller holds it, and returns False and changes nothing
\* otherwise.
C20_LockExclusive ==
    /\ [](\A f \in Paths : Cardinality(Holders(locks, f)) <= 1)
    /\ [][LockCalled =>
            IF Holders(locks, ret'.file_path) # {}
               THEN ~ret'.ok /\ locks' = locks
               ELSE /\ ret'.ok
                    /\ Holders(locks', ret'.file_path) =
                          {NewLock(ret'.file_path, ret'.agent_id, clock)}
                    /\ \A f \in Paths \ {ret'.file_path} :
                          Holders(locks', f) = Holders(locks, f)]_vars
    /\ [][UnlockCalled =>
            IF HeldByUnlocker
               THEN /\ ret'.ok
                    /\ Holders(locks', ret'.file_path) = {}
                    /\ \A f \in Paths \ {ret'.file_path} :
                          Holders(locks', f) = Holders(locks, f)
               ELSE ~ret'.ok /\ locks' = locks]_vars

\* An agent was refused the unlock of a path that another agent holds,
\* while it holds another path itself.
C20_Witness ==
    /\ ret.op = "unlock_file" /\ ~ret.ok /\ locks = ret.before
    /\ \E r \in locks : r.file_path = ret.file_path /\ r.agent_id # ret.agent_id
    /\ \E r \in locks : r.file_path # ret.file_path /\ r.agent_id = ret.agent_id

\* -------------------------------------------- claims: locks after recovery
\* C21: after recover_dead_agents or run_recovery has recovered an agent as
\* dead, no file_locks row is held by that agent.
C21_LocksReleasedOnRecovery ==
    ret.op \in {"run_recovery", "recover_dead_agents"} =>
        \A i \in 1..Len(ret.dead_agents) :
            \A r \in locks : r.agent_id # ret.dead_agents[i]

\* ------------------------------------------------- claims: the two writes
\* C22 (two-write atomicity): in every state a task claimed by agent A is
\* named by A.current_task_id, and no agent's current_task_id names a task
\* that is done or failed.
C22_TwoWriteAtomicity ==
    \A t \in DOMAIN tasks :
        /\ tasks[t].status = "claimed" =>
              agents[tasks[t].claimed_by].current_task_id = t
        /\ tasks[t].status \in {"done", "failed"} =>
              \A a \in DOMAIN agents : agents[a].current_task_id # t

\* ------------------------------------------ claims: claim_next_task, None
\* The claim_next_task call of process p returns None in this step: it
\* found no row to claim, or its claim_task returned False.
ReturnsNone(p) ==
    /\ proc[p].op = "next" /\ proc[p].pc \in {"select", "dep", "claim"}
    /\ proc'[p].pc = "idle"

\* C25: whenever claim_next_task returns None, no pending task with all its
\* dependencies done exists at that moment.
C25_NoneMeansNothingClaimable ==
    [][\A p \in Workers :
          ReturnsNone(p) => ~\E t \in DOMAIN tasks : Claimable(t)]_vars

\* --------------------------------------------- claims: the fencing token
\* The leader term in effect: the term of the leader row, 0 without one.
TermInEffect == IF leader = {} THEN 0 ELSE (CHOOSE r \in leader : TRUE).term

\* C23 (fencing token recording): when a claim made through the Coordinator
\* succeeds, the stored claim_term is the leader term in effect at the
\* moment of the pending -> claimed update.
C23_ClaimTermIsCurrent ==
    [][\A p \in Workers :
          (proc[p].pc = "claim" /\ proc'[p].pc = "setptr") =>
             tasks'[proc[p].task_id].claim_term = TermInEffect]_vars

ClaimCalled == ret' # ret /\ ret'.op = "claim"
FinishCalled == ret' # ret /\ ret'.op \in {"complete", "fail"}

LeaveCalled == ret' # ret /\ ret'.op = "leave"
\* The leaving agent has a row, and its current_task_id is set.
LeaverHoldsTask ==
    /\ ret'.agent_id \in DOMAIN agents
    /\ agents[ret'.agent_id].current_task_id # 0
HeldTask == agents[ret'.agent_id].current_task_id

\* C26 (leave): a leave by an agent that holds a task is refused without
\* force, changing neither the agents nor the tasks; with force the held
\* task is moved to abandoned, with claimed_by cleared and retry_count one
\* higher, and the agent row is deleted.
C26_Leave ==
    [][(LeaveCalled /\ LeaverHoldsTask) =>
          IF ~ret'.force
             THEN ret'.refused /\ agents' = agents /\ tasks' = tasks
             ELSE /\ tasks'[HeldTask].status = "abandoned"
                  /\ tasks'[HeldTask].claimed_by = 0
                  /\ tasks'[HeldTask].retry_count = tasks[HeldTask].retry_count + 1
                  /\ ret'.agent_id \notin DOMAIN agents']_vars

\* ------------------------------------------------------------ claims: join
JoinCalled == ret' # ret /\ ret'.op = "join"

\* C27 (agent name uniqueness): no two agent rows share a name, and a join
\* whose name is taken creates no agent row.
C27_NameUnique ==
    /\ [](\A a, b \in DOMAIN agents :
             a # b => agents[a].name # agents[b].name)
    /\ [][(JoinCalled /\ \E a \in DOMAIN agents : agents[a].name = ret'.name)
             => (~ret'.ok /\ agents' = agents)]_vars

\* A join that passed the uniqueness check was refused by the INSERT: a
\* concurrent join had taken the name meanwhile.
C27_Witness ==
    /\ ret.op = "join" /\ ~ret.ok /\ agents = ret.before
    /\ \E p \in Procs : elect[p].pc = "txn"
    /\ \E a \in DOMAIN agents :
          agents[a].name = ret.name

\* ---------------------------------------------- claims: failures in a sweep
\* C28 (recovery sweeps tolerate bad rows): the failure of one agent or one
\* task during a sweep does not leave the recovery call: no call of
\* recover_dead_agents, recover_stale_tasks or run_recovery ends with the
\* failure raised to its caller.
C28_SweepsTolerateFailures ==
    ret.op \in SweepOps => "raised" \notin DOMAIN ret

\* ------------------------------------------------- claims: version counter
\* C29 (task version counter): every mutation of a task row (claim,
\* complete, fail, abandon, re-queue) leaves the row with a version strictly
\* larger than before.
C29_VersionIncreases ==
    [][\A t \in DOMAIN tasks :
          (t \in DOMAIN tasks' /\ tasks'[t] # tasks[t])
             => tasks'[t].version > tasks[t].version]_vars

\* ------------------------------------------------------ claims: event log
\* C30 (event log completeness): no event is ever removed or changed, and a
\* step in which an agent becomes dead leaves an agent_died event for it, a
\* step in which an agent row is deleted leaves an agent_left event for it,
\* and a step in which a task becomes abandoned leaves a task_abandoned
\* event for it, whichever command makes the transition.
C30_EventLogComplete ==
    [][/\ events \subseteq events'
       /\ \A a \in DOMAIN agents :
             /\ (a \in DOMAIN agents' /\ agents[a].status # "dead"
                                      /\ agents'[a].status = "dead")
                   => Event("agent_died", a) \in events'
             /\ a \notin DOMAIN agents' => Event("agent_left", a) \in events'
       /\ \A t \in DOMAIN tasks :
             (tasks[t].status # "abandoned" /\ tasks'[t].status = "abandoned")
                => TaskEvent("task_abandoned", 0, t) \in events']_vars

\* ----------------------------------------------------- claims: stuck work
\* run_recovery returns.
RunRecoveryReturns == sweep.pc = "requeue" /\ sweep'.pc = "idle"
\* Task t was claimed when the call started, and its claim was older than
\* the timeout when the call read the clock for its stale tasks.
WasStuck(t) ==
    /\ t \in DOMAIN sweep.before.tasks
    /\ sweep.before.tasks[t].status = "claimed"
    /\ sweep.before.tasks[t].claimed_at < sweep.now - ClaimTimeout
Released(row) ==
    \/ row.status = "pending"
    \/ row.status = "abandoned" /\ row.retry_count >= row.max_retries

\* C31 (stuck work is eventually released): while run_recovery keeps being
\* invoked and time advances, a claimed task that nobody works on eventually
\* leaves status claimed; and a run_recovery that finds the claim older than
\* claim_timeout returns with the task pending again or abandoned at the
\* retry cap.
C31_StuckWorkReleased ==
    /\ \A t \in TaskIds :
          (t \in DOMAIN tasks /\ tasks[t].status = "claimed")
             ~> (t \in DOMAIN tasks /\ tasks[t].status # "claimed")
    /\ [][RunRecoveryReturns
             => \A t \in DOMAIN tasks : WasStuck(t) => Released(tasks'[t])]_vars
\* A run_recovery of a later clock than the store's returned having
\* abandoned a stale claim of a live agent, and the task is pending again.
C31_Witness ==
    /\ ret.op = "run_recovery"
    /\ ret.stale_tasks = 1 /\ ret.dead_agents = <<>>
    /\ clock = LastClock
    /\ tasks[1].status = "pending" /\ tasks[1].retry_count > 0

\* --------------------------------------- claims: stale claims, concurrently
\* The in-flight recover_stale_tasks call takes a turn of its loop.
StaleLoopTurn == sweep.pc = "stale" /\ sweep.rows # <<>> /\ sweep' # sweep

\* C32 (stale-claim recovery abandons only stale claims): a task that a turn
\* of the recover_stale_tasks loop moves from claimed to abandoned has, at
\* that moment, a claim older than claim_timeout, whatever other processes
\* did since the sweep fetched its rows.
C32_OnlyStaleClaimsAbandoned ==
    [][StaleLoopTurn
          => \A t \in DOMAIN tasks :
                (tasks[t].status = "claimed" /\ tasks'[t].status = "abandoned")
                   => tasks[t].claimed_at < clock - ClaimTimeout]_vars

\* ---------------------------------------- claims: dead agents, concurrently
\* _recover_agent takes a turn of its loop over the dead agent's tasks.
AgentLoopTurn == sweep.pc = "abandon" /\ sweep' # sweep /\ sweep.tasks # <<>>

\* C33 (dead-agent recovery abandons only the dead agent's claims): a task
\* that _recover_agent(A) moves from claimed to abandoned is claimed by A at
\* that moment, whatever other processes did since A's tasks were fetched.
C33_OnlyDeadAgentsClaimsAbandoned ==
    [][AgentLoopTurn
          => \A t \in DOMAIN tasks :
                (tasks[t].status = "claimed" /\ tasks'[t].status = "abandoned")
                   => tasks[t].claimed_by = sweep.agent]_vars

\* ---------------------------------------------------- claims: lease expiry
\* C34 (lease expiry is judged consistently): a try_become_leader call by an
\* agent that does not hold the lease takes over at its instant t exactly
\* when is_expired(), evaluated at t on the row the call found, is true,
\* the instant t = lease_expires_at included.
C34_ExpiryJudgedConsistently ==
    (Called /\ FoundRow /\ Found.agent_id # lastElect.agent_id)
       => (LeaderIsExpired(Found, lastElect.now) <=> lastElect.ok)

\* -------------------------------------------------- claims: bounded retries
\* Task t is successfully claimed in this step.
ClaimedNow(t) == tasks[t].status = "pending" /\ tasks'[t].status = "claimed"
\* Task t leaves its claim without being done.
ClaimLost(t) == tasks[t].status = "claimed"
                /\ tasks'[t].status \notin {"claimed", "done"}

\* C35 (bounded retries): retry_count never exceeds max_retries; a task is
\* claimed only while retry_count < max_retries, every claim that ends
\* without completion raises retry_count, which never decreases, and only an
\* abandoned task becomes pending again: so a task is claimed at most
\* max_retries times, and in every run the claims of a task come to an end.
C35_BoundedRetries ==
    /\ [](\A t \in DOMAIN tasks : tasks[t].retry_count <= tasks[t].max_retries)
    /\ [][\A t \in DOMAIN tasks :
             /\ ClaimedNow(t) => tasks[t].retry_count < tasks[t].max_retries
             /\ ClaimLost(t) => tasks'[t].retry_count > tasks[t].retry_count
             /\ tasks'[t].retry_count >= tasks[t].retry_count
             /\ (tasks[t].status # "pending" /\ tasks'[t].status = "pending")
                   => tasks[t].status = "abandoned"]_vars
    /\ <>[][\A t \in DOMAIN tasks : ~ClaimedNow(t)]_vars
\* A task that was claimed and abandoned max_retries times: the re-queue
\* that just returned left it abandoned.
C35_Witness ==
    /\ ret.op = "requeue" /\ ret.n = 0
    /\ \E t \in DOMAIN tasks :
          /\ tasks[t].status = "abandoned"
          /\ tasks[t].max_retries >= 1
          /\ tasks[t].retry_count = tasks[t].max_retries

\* ------------------------------------- claims: the timeout and the claimant
\* recover_stale_tasks returns.
StaleTasksReturns ==
    sweep.pc = "stale" /\ sweep.op = "recover_stale_tasks" /\ sweep'.pc = "idle"
\* The tasks that were claimed, the claim older than the timeout, when the
\* call fetched its rows.
TimedOut ==
    {t \in DOMAIN sweep.before.tasks :
        /\ sweep.before.tasks[t].status = "claimed"
        /\ sweep.before.tasks[t].claimed_at < sweep.now - ClaimTimeout}

\* C36 (claim timeout is independent of liveness): recover_stale_tasks
\* returns with every task abandoned whose claim was older than
\* claim_timeout, and counts it, whatever the claimant's status, heartbeat
\* and process, and whatever progress was reported on the task.
C36_TimeoutIgnoresLiveness ==
    [][StaleTasksReturns
          => /\ \A t \in TimedOut : tasks'[t].status = "abandoned"
             /\ ret'.stale_tasks = Cardinality(TimedOut)]_vars
\* The sweep has abandoned the task of an active agent with a live process
\* that has just sent a heartbeat, right after progress was reported on it.
C36_Witness ==
    /\ sweep.pc = "stale" /\ sweep.stale = 1
    /\ tasks[1].status = "abandoned"
    /\ ret.op = "update_task_progress" /\ ret.task_id = 1 /\ ret.ok
    /\ ret.now = clock
    /\ LET a == sweep.before.tasks[1].claimed_by
       IN /\ sweep.before.tasks[1].status = "claimed"
          /\ agents[a].status = "active"
          /\ agents[a].last_heartbeat_at = clock
          /\ agents[a].pid # 0 /\ pids[agents[a].pid] = "own"

\* ------------------------------------------------- claims: the dead agents
\* C37 (dead agents hold no claims): while no recovery sweep is in progress,
\* no claimed task is claimed by an agent whose status is dead.
C37_DeadAgentsHoldNoClaims ==
    sweep.pc = "idle"
       => \A t \in DOMAIN tasks :
             tasks[t].status = "claimed"
                => \A a \in DOMAIN agents :
                      a = tasks[t].claimed_by => agents[a].status # "dead"

\* ------------------------------------------------ claims: one claim each
\* The tasks an agent holds: claimed, with claimed_by naming the agent.
HeldBy38(a) ==
    {t \in DOMAIN tasks : tasks[t].status = "claimed" /\ tasks[t].claimed_by = a}

\* C38 (one claim per agent): at any time at most one task is claimed by a
\* given agent.
C38_OneClaimPerAgent ==
    \A a \in Agents : Cardinality(HeldBy38(a)) <= 1

\* ----------------------------------------- claims: one abandonment a sweep
\* The agents a run_recovery call in flight has recovered so far.
RecoveredAgents == {sweep.dead[i] : i \in DOMAIN sweep.dead}
\* The tasks whose retry_count the call in flight has changed.
Abandoned39 ==
    {t \in DOMAIN tasks : tasks'[t].retry_count # sweep.before.tasks[t].retry_count}

\* C39 (no double abandonment in one sweep): a run_recovery call with
\* nothing concurrent returns with every retry_count as it was at the start
\* or one higher, and its stale_tasks counts exactly the abandoned tasks
\* that were not claimed by an agent it recovered as dead.
C39_NoDoubleAbandonment ==
    [][RunRecoveryReturns
          => /\ \A t \in DOMAIN tasks :
                   \/ tasks'[t].retry_count = sweep.before.tasks[t].retry_count
                   \/ tasks'[t].retry_count = sweep.before.tasks[t].retry_count + 1
             /\ ret'.stale_tasks =
                   Cardinality({t \in Abandoned39 :
                       sweep.before.tasks[t].claimed_by \notin RecoveredAgents})]_vars
\* About to return: the task of a dead agent, its claim older than the
\* timeout as well, was abandoned once, and the stale step counted nothing.
C39_Witness ==
    /\ sweep.pc = "requeue" /\ sweep.op = "run_recovery"
    /\ sweep.dead # <<>> /\ sweep.stale = 0
    /\ \E t \in DOMAIN tasks :
          /\ sweep.before.tasks[t].status = "claimed"
          /\ sweep.before.tasks[t].claimed_by \in RecoveredAgents
          /\ sweep.before.tasks[t].claimed_at < sweep.now - ClaimTimeout
          /\ tasks[t].status = "abandoned"
          /\ tasks[t].retry_count = sweep.before.tasks[t].retry_count + 1

\* ------------------------------------------------ claims: leaving orphans
\* The leave deletes the row of the leaving agent.
LeaveSucceeds ==
    /\ LeaveCalled
    /\ ret'.agent_id \in DOMAIN agents
    /\ ret'.agent_id \notin DOMAIN agents'

\* C40 (leave orphans no claims): a leave that deletes the agent row leaves
\* no task claimed with claimed_by naming the departed agent.
C40_LeaveOrphansNoClaims ==
    [][LeaveSucceeds
          => \A t \in DOMAIN tasks' :
                ~(tasks'[t].status = "claimed"
                  /\ tasks'[t].claimed_by = ret'.agent_id)]_vars

====
